---- MODULE Spec2Model ----
(***************************************************************************)
(* Tool-mediated answer generation of the course-materials RAG backend:    *)
(* AIGenerator.generate_response / _handle_tool_execution                  *)
(* (backend/ai_generator.py), the tools and ToolManager                    *)
(* (backend/search_tools.py) and the query facade that drives them.        *)
(*                                                                         *)
(* Python values are rendered as follows.  A str is a TLA+ string, built   *)
(* with \o as the f-strings build it.  An Optional value is None == <<>>   *)
(* or Some(v) == <<v>>.  A list is a sequence; a dict with string keys is  *)
(* a record.  A content block is a record whose fields are the attributes  *)
(* the SDK object has: a text block has no name/id/input and a tool_use    *)
(* block has no text.                                                      *)
(***************************************************************************)
EXTENDS Naturals, Sequences, FiniteSets, TLC

VARIABLES
    last_sources,     \* tool name -> that tool instance's last_sources list
    fresh,            \* history: tool name -> last_sources was assigned during the current query
    pc,               \* where the single thread of control is: idle | exec | generated
    messages,         \* _handle_tool_execution: the running messages list
    current_response, \* the model response being processed
    round_count,      \* _handle_tool_execution: round_count
    idx,              \* position of the for loop over current_response.content
    tool_results,     \* tool_results of the round in progress
    calls,            \* history: the keyword arguments of every messages.create call of the query
    dispatches,       \* history: every execute_tool call of the query, with how it ended
    emitted,          \* history: content blocks the model has produced in the query
    answer,           \* what generate_response returned (Some text) or None
    outcome,          \* how the last query ended: none | returned | raised
    error,            \* the exception that ended the query, "" if none
    ret_sources,      \* the sources the facade returned with the answer
    ret_stale,        \* history: some returned source was recorded before the query began
    args,             \* the arguments generate_response was called with
    responses,        \* history: every response messages.create returned in the query
    sources_before,   \* history: last_sources as the query found it
    tools,            \* ToolManager.tools: the dict's items, in insertion order
    registrations,    \* history: every register_tool call, with how it ended
    probe,            \* history: the last call made on a tool or on the registry directly
    threads,          \* queries run from several threads: thread -> where it is, what its
                      \* tool executions recorded, what it collected
    session_id,       \* the session_id the facade's query was called with, or None
    history           \* the session store: every exchange add_exchange was given, in order

vars == <<last_sources, fresh, pc, messages, current_response, round_count, idx,
          tool_results, calls, dispatches, emitted, answer, outcome, error,
          ret_sources, ret_stale, args, responses, sources_before,
          tools, registrations, probe, threads, session_id, history>>

\* the registry and the record of the calls made on it directly
regvars == <<tools, registrations, probe, threads, session_id, history>>

\* the state of the queries
queryvars == <<last_sources, fresh, pc, messages, current_response, round_count, idx,
               tool_results, calls, dispatches, emitted, answer, outcome, error,
               ret_sources, ret_stale, args, responses, sources_before>>

(***************************************************************************)
(* Bounds of the model and constants of the program                        *)
(***************************************************************************)
\* content blocks the model may produce over one query, all responses together
MaxBlocks == 4

\* the same, in the runs of several queries through the facade
FacadeBlocks == 2

\* the same, in the runs that are checked for termination
LiveBlocks == 3

\* register_tool calls made on one registry
MaxRegistrations == 3

\* documents one search may return
MaxHits == 3

\* tool executions of one query, in the runs of queries made from several threads
MaxThreadCalls == 1

\* exchanges the session store may hold
MaxExchanges == 2

\* content blocks the model may produce over one query made with a session
SessionBlocks == 2

\* the threads that call the facade's query
Threads == {1, 2}

\* AIGenerator.MAX_TOOL_ROUNDS
MAX_TOOL_ROUNDS == 2

None == <<>>
Some(v) == <<v>>
Truthy(opt) == opt # None /\ opt[1] # ""

SEARCH == "search_course_content"
OUTLINE == "get_course_outline"
\* a name the model may ask for that no tool is registered under
UNREGISTERED == "lookup_glossary"

\* ToolManager.tools after the facade registered its two tools, in insertion order
RegisteredTools == <<SEARCH, OUTLINE>>

ToolNameSet == {RegisteredTools[i] : i \in 1..Len(RegisteredTools)}

(***************************************************************************)
(* The vector store, an external collaborator.  Its catalog is fixed; what *)
(* a search returns (or that the store raises) is chosen by the            *)
(* environment at each call.                                               *)
(***************************************************************************)
Catalog ==
    << [title |-> "Intro", course_link |-> "https://x/intro",
        lessons |-> << [lesson_number |-> 1, lesson_title |-> "Basics",
                        lesson_link |-> Some("https://x/intro/1")],
                       [lesson_number |-> 2, lesson_title |-> "Tools",
                        lesson_link |-> None] >>] >>

\* the course metadata get_all_courses_metadata may return for the outline tool: the
\* catalog, a course stored without a link whose lessons are stored out of numeric
\* order, and a course stored with no lesson
Catalogs ==
    { Catalog,
      << [title |-> "Intro", course_link |-> "",
          lessons |-> << [lesson_number |-> 2, lesson_title |-> "Tools",
                          lesson_link |-> None],
                         [lesson_number |-> 1, lesson_title |-> "Basics",
                          lesson_link |-> Some("https://x/intro/1")] >>] >>,
      << [title |-> "Intro", course_link |-> "https://x/intro", lessons |-> << >>] >> }

\* VectorStore.get_lesson_link(course_title, lesson_number) -> link or None
GetLessonLink(course_title, lesson_num) ==
    LET hits == UNION { {Catalog[c].lessons[l] : l \in {k \in 1..Len(Catalog[c].lessons) :
                                Catalog[c].lessons[k].lesson_number = lesson_num}} :
                        c \in {d \in 1..Len(Catalog) : Catalog[d].title = course_title} }
    IN IF hits = {} THEN None ELSE (CHOOSE h \in hits : TRUE).lesson_link

\* SearchResults as the store returns them
HitResults ==
    [documents |-> <<"Intro chunk">>,
     metadata |-> << [course_title |-> Some("Intro"), lesson_number |-> Some(1)] >>,
     error |-> None]

ErrorResults ==
    [documents |-> <<>>, metadata |-> <<>>, error |-> Some("Search error: store offline")]

\* What the store does during one tool execution: it raises, or search returns
\* `results`, _resolve_course_name returns `resolved` and get_all_courses_metadata
\* returns `courses`.
StoreReply(raises, results) ==
    [raises |-> raises, results |-> results, resolved |-> Some("Intro"), courses |-> Catalog]

\* the store answers; it does not raise
StoreAnswers == { StoreReply(FALSE, HitResults), StoreReply(FALSE, ErrorResults) }

\* the store answers or raises
StoreReplies == StoreAnswers \cup { StoreReply(TRUE, ErrorResults) }

\* str(e) of the exception a failing store raises
StoreFault == "Database connection failed"

(***************************************************************************)
(* Results of a call: it returns the string `text`, or it raises an         *)
(* exception whose str() is `text`; `assigned` is Some(list) when the call *)
(* assigned that list to the tool's last_sources and None when it left     *)
(* last_sources alone.                                                     *)
(***************************************************************************)
Returns(text, assigned) == [raised |-> FALSE, text |-> text, assigned |-> assigned]
Raises(msg) == [raised |-> TRUE, text |-> msg, assigned |-> None]

Source(text, link) == [text |-> text, link |-> link]

\* a call the tool makes on its store
StoreCall(method, arguments) == [method |-> method, args |-> arguments]

\* the result of a tool's execute, with the calls it made on the store, in order
Calling(result, store_calls) ==
    [raised |-> result.raised, text |-> result.text, assigned |-> result.assigned,
     store_calls |-> store_calls]

RECURSIVE Join(_, _)
\* sep.join(parts)
Join(parts, sep) ==
    IF parts = <<>> THEN ""
    ELSE IF Len(parts) = 1 THEN parts[1]
    ELSE parts[1] \o sep \o Join(Tail(parts), sep)

\* Python binds **kwargs to a signature: TypeError when a required parameter is
\* missing or a keyword is not a parameter
BindError(kwargs, required, optional) ==
    IF \E r \in required : r \notin DOMAIN kwargs
    THEN Some("execute() missing 1 required positional argument")
    ELSE IF \E k \in DOMAIN kwargs : k \notin required \cup optional
    THEN Some("execute() got an unexpected keyword argument")
    ELSE None

Arg(kwargs, k) == IF k \in DOMAIN kwargs THEN Some(kwargs[k]) ELSE None

(***************************************************************************)
(* CourseSearchTool                                                        *)
(***************************************************************************)
RECURSIVE FormatFromVariant(_, _, _, _, _)
\* mutants of the loop of _format_results: without the seen_sources test when
\* dedupe is FALSE, with a link lookup for every result when every_result is TRUE
FormatFromVariant(results, i, acc, dedupe, every_result) ==
    IF i > Len(results.documents) \/ i > Len(results.metadata) THEN acc
    ELSE
      LET doc == results.documents[i]
          meta == results.metadata[i]
          course_title == IF meta.course_title = None THEN "unknown" ELSE meta.course_title[1]
          lesson_num == meta.lesson_number
          label == IF lesson_num # None
                   THEN course_title \o " - Lesson " \o ToString(lesson_num[1])
                   ELSE course_title
          source_key == course_title \o "|" \o
                        (IF lesson_num = None THEN "None" ELSE ToString(lesson_num[1]))
          link == IF lesson_num # None THEN GetLessonLink(course_title, lesson_num[1]) ELSE None
          isNew == ~dedupe \/ source_key \notin acc.seen
      IN FormatFromVariant(results, i + 1,
            [formatted |-> Append(acc.formatted, "[" \o label \o "]" \o "\n" \o doc),
             sources |-> IF isNew THEN Append(acc.sources, Source(label, link))
                         ELSE acc.sources,
             seen |-> acc.seen \cup {source_key},
             lookups |-> IF (isNew \/ every_result) /\ lesson_num # None
                         THEN Append(acc.lookups,
                                     StoreCall("get_lesson_link", <<course_title, lesson_num[1]>>))
                         ELSE acc.lookups],
            dedupe, every_result)

\* mutant: every result records a source
FormatFromNoDedupe(results, i, acc) == FormatFromVariant(results, i, acc, FALSE, FALSE)

\* mutant: the link is looked up for every result that has a lesson number
FormatFromLooksUpAll(results, i, acc) == FormatFromVariant(results, i, acc, TRUE, TRUE)

RECURSIVE FormatFrom(_, _, _)
\* the loop of _format_results from pair i on, with `formatted`, `sources` and
\* `seen_sources` gathered in acc
FormatFrom(results, i, acc) ==
    IF i > Len(results.documents) \/ i > Len(results.metadata) THEN acc
    ELSE
      LET doc == results.documents[i]
          meta == results.metadata[i]
          course_title == IF meta.course_title = None THEN "unknown" ELSE meta.course_title[1]
          lesson_num == meta.lesson_number
          label == IF lesson_num # None
                   THEN course_title \o " - Lesson " \o ToString(lesson_num[1])
                   ELSE course_title
          header == "[" \o label \o "]"
          source_key == course_title \o "|" \o
                        (IF lesson_num = None THEN "None" ELSE ToString(lesson_num[1]))
          link == IF lesson_num # None THEN GetLessonLink(course_title, lesson_num[1]) ELSE None
          isNew == source_key \notin acc.seen
      IN FormatFrom(results, i + 1,
            [formatted |-> Append(acc.formatted, header \o "\n" \o doc),
             sources |-> IF isNew THEN Append(acc.sources, Source(label, link))
                         ELSE acc.sources,
             seen |-> acc.seen \cup {source_key},
             lookups |-> IF isNew /\ lesson_num # None
                         THEN Append(acc.lookups,
                                     StoreCall("get_lesson_link", <<course_title, lesson_num[1]>>))
                         ELSE acc.lookups])

\* mutant: the blocks are joined last result first
FormatResultsReversed(results) ==
    LET acc == FormatFrom(results, 1,
                   [formatted |-> <<>>, sources |-> <<>>, seen |-> {}, lookups |-> <<>>])
        n == Len(acc.formatted)
    IN [text |-> Join([i \in 1..n |-> acc.formatted[n + 1 - i]], "\n\n"),
        sources |-> acc.sources, lookups |-> acc.lookups]

\* CourseSearchTool._format_results: the text, and the new last_sources
FormatResults(results) ==
    LET acc == FormatFrom(results, 1,
                   [formatted |-> <<>>, sources |-> <<>>, seen |-> {}, lookups |-> <<>>])
    IN [text |-> Join(acc.formatted, "\n\n"), sources |-> acc.sources, lookups |-> acc.lookups]

\* mutant: the error of the results is not looked at
SearchExecuteIgnoresError(kwargs, reply) ==
    LET results == reply.results
        search == StoreCall("search", <<kwargs.query, Arg(kwargs, "course_name"),
                                        Arg(kwargs, "lesson_number")>>)
    IN IF Len(results.documents) = 0
       THEN Calling(Returns("No relevant content found.", None), <<search>>)
       ELSE LET f == FormatResults(results)
            IN Calling(Returns(f.text, Some(f.sources)), <<search>> \o f.lookups)

\* mutant: a search that formats nothing clears last_sources
SearchExecuteClearsOnMiss(kwargs, reply) ==
    LET bad == BindError(kwargs, {"query"}, {"course_name", "lesson_number"})
        results == reply.results
        search == StoreCall("search", <<kwargs.query, Arg(kwargs, "course_name"),
                                        Arg(kwargs, "lesson_number")>>)
    IN IF bad # None THEN Calling(Raises(bad[1]), <<>>)
       ELSE IF reply.raises THEN Calling(Raises(StoreFault), <<search>>)
       ELSE IF Truthy(results.error)
       THEN Calling(Returns(results.error[1], Some(<<>>)), <<search>>)
       ELSE IF Len(results.documents) = 0
       THEN Calling(Returns("No relevant content found.", Some(<<>>)), <<search>>)
       ELSE LET f == FormatResults(results)
            IN Calling(Returns(f.text, Some(f.sources)), <<search>> \o f.lookups)

\* CourseSearchTool.execute(**kwargs) with the store answering `reply`
SearchExecute(kwargs, reply) ==
    LET bad == BindError(kwargs, {"query"}, {"course_name", "lesson_number"})
        course_name == Arg(kwargs, "course_name")
        lesson_number == Arg(kwargs, "lesson_number")
        results == reply.results
        filter_info ==
            (IF Truthy(course_name) THEN " in course '" \o course_name[1] \o "'" ELSE "")
            \o (IF lesson_number # None /\ lesson_number[1] # 0
                THEN " in lesson " \o ToString(lesson_number[1]) ELSE "")
        search == StoreCall("search", <<kwargs.query, course_name, lesson_number>>)
    IN IF bad # None THEN Calling(Raises(bad[1]), <<>>)
       ELSE IF reply.raises THEN Calling(Raises(StoreFault), <<search>>)
       ELSE IF Truthy(results.error) THEN Calling(Returns(results.error[1], None), <<search>>)
       ELSE IF Len(results.documents) = 0
       THEN Calling(Returns("No relevant content found" \o filter_info \o ".", None),
                    <<search>>)
       ELSE LET f == FormatResults(results)
            IN Calling(Returns(f.text, Some(f.sources)), <<search>> \o f.lookups)

(***************************************************************************)
(* CourseOutlineTool                                                       *)
(***************************************************************************)
RECURSIVE LessonLines(_)
LessonLines(lessons) ==
    IF lessons = <<>> THEN <<>>
    ELSE <<"  " \o ToString(lessons[1].lesson_number) \o ". " \o lessons[1].lesson_title>>
         \o LessonLines(Tail(lessons))

\* mutant: a source is recorded for the course and for each of its lessons
FormatOutlinePerLesson(course_data) ==
    [text |-> "Course: " \o course_data.title,
     sources |-> << Source(course_data.title, Some(course_data.course_link)) >>
                 \o [i \in 1..Len(course_data.lessons) |->
                        Source(course_data.title, course_data.lessons[i].lesson_link)]]

\* the lessons, the lowest lesson number first
RECURSIVE ByLessonNumber(_)
ByLessonNumber(lessons) ==
    IF lessons = <<>> THEN <<>>
    ELSE LET lowest == CHOOSE i \in 1..Len(lessons) :
                          \A j \in 1..Len(lessons) :
                             lessons[i].lesson_number <= lessons[j].lesson_number
         IN <<lessons[lowest]>>
            \o ByLessonNumber([k \in 1..(Len(lessons) - 1) |->
                                 IF k < lowest THEN lessons[k] ELSE lessons[k + 1]])

\* mutant: the lessons are listed by lesson number, not as stored
FormatOutlineSorted(course_data) ==
    LET title == course_data.title
        course_link == course_data.course_link
        lessons == ByLessonNumber(course_data.lessons)
        lines == << "Course: " \o title,
                    IF course_link # "" THEN "Course Link: " \o course_link ELSE "",
                    "Total Lessons: " \o ToString(Len(lessons)),
                    "",
                    "Lessons:" >> \o LessonLines(lessons)
    IN [text |-> Join(SelectSeq(lines, LAMBDA line : line # ""), "\n"),
        sources |-> << Source(title, Some(course_link)) >>]

\* CourseOutlineTool._format_outline: the text, and the new last_sources
FormatOutline(course_data) ==
    LET title == course_data.title
        course_link == course_data.course_link
        lessons == course_data.lessons
        lines == << "Course: " \o title,
                    IF course_link # "" THEN "Course Link: " \o course_link ELSE "",
                    "Total Lessons: " \o ToString(Len(lessons)),
                    "",
                    "Lessons:" >> \o LessonLines(lessons)
    IN [text |-> Join(SelectSeq(lines, LAMBDA line : line # ""), "\n"),
        sources |-> << Source(title, Some(course_link)) >>]

\* mutant: missing metadata is reported as a title that did not resolve
OutlineExecuteOneMessage(kwargs, reply) ==
    LET bad == BindError(kwargs, {"course_title"}, {})
        resolved_title == reply.resolved
        matching == {c \in 1..Len(reply.courses) : reply.courses[c].title = resolved_title[1]}
        resolve == StoreCall("_resolve_course_name", <<kwargs.course_title>>)
        fetch == StoreCall("get_all_courses_metadata", <<>>)
    IN IF bad # None THEN Calling(Raises(bad[1]), <<>>)
       ELSE IF reply.raises THEN Calling(Raises(StoreFault), <<resolve>>)
       ELSE IF ~Truthy(resolved_title)
       THEN Calling(Returns("No course found matching '" \o kwargs.course_title \o "'", None),
                    <<resolve>>)
       ELSE IF matching = {}
       THEN Calling(Returns("No course found matching '" \o kwargs.course_title \o "'", None),
                    <<resolve, fetch>>)
       ELSE LET first == CHOOSE c \in matching : \A d \in matching : c <= d
                f == FormatOutline(reply.courses[first])
            IN Calling(Returns(f.text, Some(f.sources)), <<resolve, fetch>>)

\* mutant: a title that does not resolve falls back to the first course of the catalog
OutlineExecuteGuesses(kwargs, reply) ==
    LET bad == BindError(kwargs, {"course_title"}, {})
        resolve == StoreCall("_resolve_course_name", <<kwargs.course_title>>)
        fetch == StoreCall("get_all_courses_metadata", <<>>)
        f == FormatOutline(reply.courses[1])
    IN IF bad # None THEN Calling(Raises(bad[1]), <<>>)
       ELSE IF reply.raises THEN Calling(Raises(StoreFault), <<resolve>>)
       ELSE Calling(Returns(f.text, Some(f.sources)), <<resolve, fetch>>)

\* CourseOutlineTool.execute(**kwargs) with the store answering `reply`
OutlineExecute(kwargs, reply) ==
    LET bad == BindError(kwargs, {"course_title"}, {})
        resolved_title == reply.resolved
        matching == {c \in 1..Len(reply.courses) : reply.courses[c].title = resolved_title[1]}
        resolve == StoreCall("_resolve_course_name", <<kwargs.course_title>>)
        fetch == StoreCall("get_all_courses_metadata", <<>>)
    IN IF bad # None THEN Calling(Raises(bad[1]), <<>>)
       ELSE IF reply.raises THEN Calling(Raises(StoreFault), <<resolve>>)
       ELSE IF ~Truthy(resolved_title)
       THEN Calling(Returns("No course found matching '" \o kwargs.course_title \o "'", None),
                    <<resolve>>)
       ELSE IF matching = {}
       THEN Calling(Returns("Could not retrieve metadata for course '"
                            \o resolved_title[1] \o "'", None),
                    <<resolve, fetch>>)
       ELSE LET first == CHOOSE c \in matching : \A d \in matching : c <= d
                f == FormatOutline(reply.courses[first])
            IN Calling(Returns(f.text, Some(f.sources)), <<resolve, fetch>>)

(***************************************************************************)
(* ToolManager                                                             *)
(***************************************************************************)
\* ToolManager.get_tool_definitions (a definition is shortened to its name)
GetToolDefinitions == [i \in 1..Len(RegisteredTools) |-> [name |-> RegisteredTools[i]]]

\* mutant: an unregistered name raises KeyError
ExecuteToolUnknownRaises(tool_name, kwargs, reply) ==
    IF tool_name \notin ToolNameSet
    THEN Raises("KeyError")
    ELSE IF tool_name = SEARCH THEN SearchExecute(kwargs, reply)
    ELSE OutlineExecute(kwargs, reply)

\* ToolManager.execute_tool(tool_name, **kwargs) with the store answering `reply`
ExecuteTool(tool_name, kwargs, reply) ==
    IF tool_name \notin ToolNameSet
    THEN Returns("Tool '" \o tool_name \o "' not found", None)
    ELSE IF tool_name = SEARCH THEN SearchExecute(kwargs, reply)
    ELSE OutlineExecute(kwargs, reply)

\* the tools of the registry, in order, whose last_sources is non-empty
NonEmptyTools(ls) == SelectSeq(RegisteredTools, LAMBDA t : ls[t] # <<>>)

\* mutant: the scan returns the sources of the last tool that holds some
GetLastSourcesLastHolder(ls) ==
    IF NonEmptyTools(ls) = <<>> THEN <<>> ELSE ls[NonEmptyTools(ls)[Len(NonEmptyTools(ls))]]

\* ToolManager.get_last_sources
GetLastSources(ls) ==
    IF NonEmptyTools(ls) = <<>> THEN <<>> ELSE ls[NonEmptyTools(ls)[1]]

\* mutant: only the tool whose sources get_last_sources returns is reset
ResetSourcesReturnedOnly(ls) ==
    [t \in DOMAIN ls |->
        IF NonEmptyTools(ls) # <<>> /\ t = NonEmptyTools(ls)[1] THEN <<>> ELSE ls[t]]

\* mutant: only the first tool's sources are reset
ResetSourcesFirstOnly(ls) ==
    [t \in DOMAIN ls |-> IF t = RegisteredTools[1] THEN <<>> ELSE ls[t]]

\* ToolManager.reset_sources
ResetSources(ls) == [t \in DOMAIN ls |-> <<>>]

\* A tool instance: `id` tells the instances apart, `kind` is its class and `name`
\* is what its get_tool_definition() holds under "name" (None: no such key).
ToolInstance(id, kind, name) == [id |-> id, kind |-> kind, name |-> name]

\* the keys of the dict, in order
Keys(ts) == [i \in 1..Len(ts) |-> ts[i].name]

HasKey(ts, k) == \E i \in 1..Len(ts) : ts[i].name = k

\* mutant: a key that is set again moves to the end
DictSetMovesLast(ts, k, v) ==
    Append(SelectSeq(ts, LAMBDA e : e.name # k), [name |-> k, tool |-> v])

\* d[k] = v on a dict: an existing key keeps its place and gets the new value, a new
\* key goes last
DictSet(ts, k, v) ==
    IF HasKey(ts, k)
    THEN [i \in 1..Len(ts) |-> IF ts[i].name = k THEN [name |-> k, tool |-> v] ELSE ts[i]]
    ELSE Append(ts, [name |-> k, tool |-> v])

\* d[k]
DictGet(ts, k) == ts[CHOOSE i \in 1..Len(ts) : ts[i].name = k].tool

\* mutant: every registration is appended
RegisterToolAppends(ts, tool) ==
    LET tool_name == tool.name
    IN IF ~Truthy(tool_name)
       THEN [raised |-> TRUE, text |-> "Tool must have a 'name' in its definition",
             tools |-> ts]
       ELSE [raised |-> FALSE, text |-> "",
             tools |-> Append(ts, [name |-> tool_name[1], tool |-> tool])]

\* mutant: the name is not checked
RegisterToolUnchecked(ts, tool) ==
    LET tool_name == tool.name
    IN [raised |-> FALSE, text |-> "",
        tools |-> DictSet(ts, IF tool_name = None THEN "None" ELSE tool_name[1], tool)]

\* ToolManager.register_tool(tool) on the registry ts: the registry afterwards, and
\* whether ValueError was raised
RegisterTool(ts, tool) ==
    LET tool_name == tool.name
    IN IF ~Truthy(tool_name)
       THEN [raised |-> TRUE, text |-> "Tool must have a 'name' in its definition",
             tools |-> ts]
       ELSE [raised |-> FALSE, text |-> "", tools |-> DictSet(ts, tool_name[1], tool)]

\* ToolManager.get_tool_definitions on the registry ts
ToolDefinitions(ts) == [i \in 1..Len(ts) |-> [name |-> ts[i].tool.name[1]]]

\* the registry of the facade: a CourseSearchTool, then a CourseOutlineTool
FacadeTools ==
    RegisterTool(RegisterTool(<<>>, ToolInstance(1, "search", Some(SEARCH))).tools,
                 ToolInstance(2, "outline", Some(OUTLINE))).tools

\* ToolManager.execute_tool(tool_name, **kwargs) on the registry ts: the instance
\* that ran (id 0: none) and how the call ended
RegistryExecute(ts, tool_name, kwargs, reply) ==
    IF ~HasKey(ts, tool_name)
    THEN [ran |-> 0, result |-> Returns("Tool '" \o tool_name \o "' not found", None)]
    ELSE LET t == DictGet(ts, tool_name)
         IN [ran |-> t.id,
             result |-> IF t.kind = "search" THEN SearchExecute(kwargs, reply)
                        ELSE OutlineExecute(kwargs, reply)]

(***************************************************************************)
(* The model, an external collaborator: what one messages.create call may  *)
(* return.  The text of every text block and the id of every tool_use      *)
(* block are distinct over a query: block p of the response to call n.     *)
(***************************************************************************)
TextBlock(text) == [type |-> "text", text |-> text]
ToolUseBlock(name, id, input) ==
    [type |-> "tool_use", name |-> name, id |-> id, input |-> input]

\* requests the model may make: a tool name and the arguments it supplies.  The
\* outline tool has no parameter `query`: binding that request raises TypeError.
SearchRequest == [name |-> SEARCH, input |-> [query |-> "MCP"]]
OutlineRequest == [name |-> OUTLINE, input |-> [course_title |-> "Intro"]]
MisboundRequest == [name |-> OUTLINE, input |-> [query |-> "Intro"]]
UnregisteredRequest == [name |-> UNREGISTERED, input |-> [query |-> "MCP"]]

RoundRequests == {SearchRequest, MisboundRequest, UnregisteredRequest}
AllRequests == RoundRequests \cup {OutlineRequest}

Tag(n, p) == ToString(n) \o "." \o ToString(p)

BlockChoices(n, p, requests) ==
    {TextBlock("text " \o Tag(n, p))}
    \cup {ToolUseBlock(r.name, "toolu_" \o Tag(n, p), r.input) : r \in requests}

RECURSIVE ContentsOfLen(_, _, _)
ContentsOfLen(n, len, requests) ==
    IF len = 0 THEN {<<>>}
    ELSE {Append(c, b) : c \in ContentsOfLen(n, len - 1, requests),
                         b \in BlockChoices(n, len, requests)}

StopReasons == {"end_turn", "tool_use", "max_tokens"}

\* the responses to call n when the model may still produce `budget` blocks
Responses(n, budget, requests) ==
    UNION { [stop_reason : StopReasons, content : ContentsOfLen(n, len, requests)] :
            len \in 0..budget }

NoResponse == [stop_reason |-> "", content |-> <<>>]

(***************************************************************************)
(* AIGenerator                                                             *)
(***************************************************************************)
SYSTEM_PROMPT == "You are an AI assistant specialized in course materials"

\* mutant: an empty history also gets its section
SystemContentUnlessNone(conversation_history) ==
    IF conversation_history # None
    THEN SYSTEM_PROMPT \o "\n\nPrevious conversation:\n" \o conversation_history[1]
    ELSE SYSTEM_PROMPT

\* generate_response: system_content
SystemContent(conversation_history) ==
    IF Truthy(conversation_history)
    THEN SYSTEM_PROMPT \o "\n\nPrevious conversation:\n" \o conversation_history[1]
    ELSE SYSTEM_PROMPT

\* generate_response: api_params, the keyword arguments of the first call
ApiParams(a) ==
    [messages |-> << [role |-> "user", content |-> a.query] >>,
     system |-> SystemContent(a.conversation_history),
     tools |-> IF a.tools # <<>> THEN Some(a.tools) ELSE None,
     tool_choice |-> IF a.tools # <<>> THEN Some([type |-> "auto"]) ELSE None]

\* mutant: the follow-up calls carry the static prompt only
FollowupParamsStaticSystem(base_params, msgs, rc) ==
    [messages |-> msgs,
     system |-> SYSTEM_PROMPT,
     tools |-> IF rc < MAX_TOOL_ROUNDS /\ base_params.tools # None
               THEN base_params.tools ELSE None,
     tool_choice |-> IF rc < MAX_TOOL_ROUNDS /\ base_params.tools # None
                     THEN Some([type |-> "auto"]) ELSE None]

\* mutant: no follow-up call carries the tools
FollowupParamsDropsTools(base_params, msgs, rc) ==
    [messages |-> msgs, system |-> base_params.system, tools |-> None, tool_choice |-> None]

\* mutant: the tools stay in the call made at the cap
FollowupParamsKeepsTools(base_params, msgs, rc) ==
    [messages |-> msgs,
     system |-> base_params.system,
     tools |-> base_params.tools,
     tool_choice |-> IF base_params.tools # None THEN Some([type |-> "auto"]) ELSE None]

\* _handle_tool_execution: followup_params after round_count was incremented to rc
FollowupParams(base_params, msgs, rc) ==
    [messages |-> msgs,
     system |-> base_params.system,
     tools |-> IF rc < MAX_TOOL_ROUNDS /\ base_params.tools # None
               THEN base_params.tools ELSE None,
     tool_choice |-> IF rc < MAX_TOOL_ROUNDS /\ base_params.tools # None
                     THEN Some([type |-> "auto"]) ELSE None]

\* generate_response hands the response to _handle_tool_execution
WantsTools(response, a) == response.stop_reason = "tool_use" /\ a.tool_manager

\* mutant: the last block's text is returned
DirectTextLast(content) ==
    IF content = <<>> THEN Raises("IndexError")
    ELSE IF "text" \notin DOMAIN content[Len(content)] THEN Raises("AttributeError")
    ELSE Returns(content[Len(content)].text, None)

\* generate_response: `return response.content[0].text`
DirectText(content) ==
    IF content = <<>> THEN Raises("IndexError")
    ELSE IF "text" \notin DOMAIN content[1] THEN Raises("AttributeError")
    ELSE Returns(content[1].text, None)

\* _handle_tool_execution: the text of the first block that has one, else ""
ExtractText(content) ==
    LET texts == SelectSeq(content, LAMBDA b : "text" \in DOMAIN b)
    IN IF texts = <<>> THEN "" ELSE texts[1].text

\* mutant: the result is tagged with the tool's name instead of the call id
ToolResultNamed(block, tool_result) ==
    [type |-> "tool_result", tool_use_id |-> block.name, content |-> tool_result]

\* mutant: the text of a call to an unregistered tool is replaced by an error notice
ToolResultMarksNotFound(block, tool_result) ==
    [type |-> "tool_result", tool_use_id |-> block.id,
     content |-> IF block.name \notin ToolNameSet THEN "Error: unknown tool" ELSE tool_result]

\* _handle_tool_execution: the tool_result block appended for a tool_use block
ToolResult(block, tool_result) ==
    [type |-> "tool_result", tool_use_id |-> block.id, content |-> tool_result]

\* mutant: the loop runs to the cap whatever the response's stop_reason
LoopContinuesIgnoresStop(response, rc) == rc < MAX_TOOL_ROUNDS

\* mutant: the cap is checked off by one
LoopContinuesOffByOne(response, rc) ==
    response.stop_reason = "tool_use" /\ rc <= MAX_TOOL_ROUNDS

\* mutant: the loop also ends after a round in which a tool execution failed
LoopContinuesUnlessToolError(response, rc) ==
    /\ response.stop_reason = "tool_use"
    /\ rc < MAX_TOOL_ROUNDS
    /\ \A j \in 1..Len(tool_results) :
          SubSeq(tool_results[j].content, 1, 21) # "Tool execution error:"

\* the loop continues after a follow-up response
LoopContinues(response, rc) == response.stop_reason = "tool_use" /\ rc < MAX_TOOL_ROUNDS

(***************************************************************************)
(* Callers.  The facade's query(text, session) calls generate_response     *)
(* with the registry's definitions and the registry, then collects the     *)
(* sources, resets them and returns (answer, sources).  generate_response  *)
(* may also be called on its own, with or without tools and tool manager.  *)
(***************************************************************************)
FacadeArgs ==
    [query |-> "What is MCP?", conversation_history |-> None,
     tools |-> GetToolDefinitions, tool_manager |-> TRUE]

ArgChoices ==
    { FacadeArgs,
      [FacadeArgs EXCEPT !.tool_manager = FALSE],
      [FacadeArgs EXCEPT !.tools = <<>>, !.conversation_history = Some("User: hi")] }

\* no query has been made yet
Quiescent ==
    /\ fresh = [t \in ToolNameSet |-> FALSE]
    /\ pc = "idle"
    /\ messages = <<>>
    /\ current_response = NoResponse
    /\ round_count = 0
    /\ idx = 0
    /\ tool_results = <<>>
    /\ calls = <<>>
    /\ dispatches = <<>>
    /\ emitted = 0
    /\ answer = None
    /\ outcome = "none"
    /\ error = ""
    /\ ret_sources = <<>>
    /\ ret_stale = FALSE
    /\ args = FacadeArgs
    /\ responses = <<>>
    /\ sources_before = last_sources
    /\ registrations = <<>>
    /\ probe = None
    /\ threads = [q \in Threads |-> [pc |-> "idle", executions |-> 0, recorded |-> {},
                                     collected |-> <<>>]]
    /\ session_id = None
    /\ history = <<>>

\* the facade has built its registry: both tools registered, no sources yet
Init ==
    /\ last_sources = [t \in ToolNameSet |-> <<>>]
    /\ tools = FacadeTools
    /\ Quiescent

\* the exception `kind` leaves generate_response (and the facade's query)
Abort(kind) ==
    /\ pc' = "idle"
    /\ outcome' = "raised"
    /\ error' = kind
    /\ answer' = None

\* generate_response returns `text`
Return(text) ==
    /\ pc' = "generated"
    /\ answer' = Some(text)
    /\ UNCHANGED <<outcome, error>>

\* generate_response(a) is called and issues the first messages.create call
BeginWith(a) ==
    /\ pc = "idle"
    /\ pc' = "awaiting"
    /\ args' = a
    /\ calls' = <<ApiParams(a)>>
    /\ fresh' = [t \in ToolNameSet |-> FALSE]
    /\ messages' = <<>>
    /\ current_response' = NoResponse
    /\ round_count' = 0
    /\ idx' = 0
    /\ tool_results' = <<>>
    /\ dispatches' = <<>>
    /\ emitted' = 0
    /\ answer' = None
    /\ outcome' = "none"
    /\ error' = ""
    /\ ret_sources' = <<>>
    /\ ret_stale' = FALSE
    /\ responses' = <<>>
    /\ sources_before' = last_sources
    /\ UNCHANGED last_sources

\* a query made without a session (or a direct call of generate_response)
QueryBegin(a) ==
    /\ BeginWith(a)
    /\ UNCHANGED regvars

\* session_manager.get_conversation_history(sid): the exchanges of the session as
\* one text, None when it has none
Exchanges(sid) == SelectSeq(history, LAMBDA e : e.session_id = sid)

RECURSIVE FormatExchanges(_)
FormatExchanges(es) ==
    IF es = <<>> THEN ""
    ELSE (IF Len(es) = 1 THEN "" ELSE FormatExchanges(SubSeq(es, 1, Len(es) - 1)) \o "\n")
         \o "User: " \o es[Len(es)].user \o "\nAssistant: " \o es[Len(es)].assistant

GetConversationHistory(sid) ==
    IF Exchanges(sid) = <<>> THEN None ELSE Some(FormatExchanges(Exchanges(sid)))

\* the facade's query(question, sid): read the session's history when a session is
\* given, then call generate_response with it and with the tools
SessionQuery(question, sid) ==
    /\ Len(history) < MaxExchanges
    /\ BeginWith([FacadeArgs EXCEPT
                    !.query = question,
                    !.conversation_history =
                        IF Truthy(sid) THEN GetConversationHistory(sid[1]) ELSE None])
    /\ session_id' = sid
    /\ UNCHANGED <<tools, registrations, probe, threads, history>>

\* mutant: the failure is swallowed and an empty answer returned
ModelFailsSwallowed ==
    /\ pc = "awaiting"
    /\ Return("")
    /\ UNCHANGED <<last_sources, fresh, messages, current_response, round_count, idx,
                   tool_results, calls, dispatches, emitted, ret_sources, ret_stale, args,
                   responses, sources_before>>
    /\ UNCHANGED regvars

\* the outstanding messages.create call raises: nothing catches it
ModelFails ==
    /\ pc = "awaiting"
    /\ Abort("APIError")
    /\ UNCHANGED <<last_sources, fresh, messages, current_response, round_count, idx,
                   tool_results, calls, dispatches, emitted, ret_sources, ret_stale, args, responses, sources_before>>
    /\ UNCHANGED regvars

\* the first response is not handed to the tool loop: return response.content[0].text
FirstDirect(resp) ==
    /\ pc = "awaiting"
    /\ Len(calls) = 1
    /\ ~WantsTools(resp, args)
    /\ LET r == DirectText(resp.content)
       IN IF r.raised THEN Abort(r.text) ELSE Return(r.text)
    /\ responses' = Append(responses, resp)
    /\ current_response' = resp
    /\ emitted' = emitted + Len(resp.content)
    /\ UNCHANGED <<last_sources, fresh, messages, round_count, idx, tool_results, calls,
                   dispatches, ret_sources, ret_stale, args, sources_before>>
    /\ UNCHANGED regvars

\* the first response asks for tools: _handle_tool_execution begins its first round
FirstToolUse(resp) ==
    /\ pc = "awaiting"
    /\ Len(calls) = 1
    /\ WantsTools(resp, args)
    /\ pc' = "exec"
    /\ messages' = Append(ApiParams(args).messages,
                          [role |-> "assistant", content |-> resp.content])
    /\ responses' = Append(responses, resp)
    /\ current_response' = resp
    /\ emitted' = emitted + Len(resp.content)
    /\ round_count' = 0
    /\ idx' = 1
    /\ tool_results' = <<>>
    /\ UNCHANGED <<last_sources, fresh, calls, dispatches, answer, outcome, error,
                   ret_sources, ret_stale, args, sources_before>>
    /\ UNCHANGED regvars

\* mutant: the dispatch is not wrapped in try/except
TryExecuteToolUncaught(tool_name, kwargs, reply) == ExecuteTool(tool_name, kwargs, reply)

\* mutant: the exception's message is fed back without the marker
TryExecuteToolBareMessage(tool_name, kwargs, reply) ==
    LET r == ExecuteTool(tool_name, kwargs, reply)
    IN IF r.raised THEN Returns(r.text, r.assigned) ELSE r

\* _handle_tool_execution: try: execute_tool(...) except Exception as e:
\* tool_result = f"Tool execution error: {str(e)}"
TryExecuteTool(tool_name, kwargs, reply) ==
    LET r == ExecuteTool(tool_name, kwargs, reply)
    IN IF r.raised THEN Returns("Tool execution error: " \o r.text, r.assigned) ELSE r

\* the for loop meets a tool_use block: dispatch, catch, record the result
ExecuteBlock(reply) ==
    /\ pc = "exec"
    /\ idx <= Len(current_response.content)
    /\ current_response.content[idx].type = "tool_use"
    /\ LET block == current_response.content[idx]
           ran == ExecuteTool(block.name, block.input, reply)
           r == TryExecuteTool(block.name, block.input, reply)
       IN /\ last_sources' = IF r.assigned # None
                             THEN [last_sources EXCEPT ![block.name] = r.assigned[1]]
                             ELSE last_sources
          /\ fresh' = IF r.assigned # None
                      THEN [fresh EXCEPT ![block.name] = TRUE]
                      ELSE fresh
          /\ dispatches' = Append(dispatches,
                 [name |-> block.name, id |-> block.id, raised |-> ran.raised,
                  text |-> ran.text, assigned |-> ran.assigned,
                  call |-> Len(calls), pos |-> idx])
          /\ IF r.raised
             THEN \* an exception nothing caught leaves generate_response
                  /\ Abort(r.text)
                  /\ UNCHANGED <<tool_results, idx>>
             ELSE /\ tool_results' = Append(tool_results, ToolResult(block, r.text))
                  /\ idx' = idx + 1
                  /\ UNCHANGED <<pc, answer, outcome, error>>
    /\ UNCHANGED <<messages, current_response, round_count, calls, emitted,
                   ret_sources, ret_stale, args, responses, sources_before>>
    /\ UNCHANGED regvars

\* the for loop meets a block that is not a tool_use block
SkipBlock ==
    /\ pc = "exec"
    /\ idx <= Len(current_response.content)
    /\ current_response.content[idx].type # "tool_use"
    /\ idx' = idx + 1
    /\ UNCHANGED <<last_sources, fresh, pc, messages, current_response, round_count,
                   tool_results, calls, dispatches, emitted, answer, outcome, error,
                   ret_sources, ret_stale, args, responses, sources_before>>
    /\ UNCHANGED regvars

\* the messages list after the round's results were appended
WithResults(msgs, results) ==
    IF results # <<>> THEN Append(msgs, [role |-> "user", content |-> results]) ELSE msgs

\* mutant: the next model call is issued without waiting for the remaining blocks
FollowUpEarly ==
    /\ pc = "exec"
    /\ pc' = "awaiting"
    /\ messages' = WithResults(messages, tool_results)
    /\ round_count' = round_count + 1
    /\ calls' = Append(calls, FollowupParams(ApiParams(args),
                                  WithResults(messages, tool_results), round_count + 1))
    /\ UNCHANGED <<last_sources, fresh, current_response, idx, tool_results, dispatches,
                   emitted, answer, outcome, error, ret_sources, ret_stale, args, responses, sources_before>>
    /\ UNCHANGED regvars

\* the for loop is over: append the results, count the round, call the model again
FollowUp ==
    /\ pc = "exec"
    /\ idx > Len(current_response.content)
    /\ pc' = "awaiting"
    /\ messages' = WithResults(messages, tool_results)
    /\ round_count' = round_count + 1
    /\ calls' = Append(calls, FollowupParams(ApiParams(args),
                                  WithResults(messages, tool_results), round_count + 1))
    /\ UNCHANGED <<last_sources, fresh, current_response, idx, tool_results, dispatches,
                   emitted, answer, outcome, error, ret_sources, ret_stale, args, responses, sources_before>>
    /\ UNCHANGED regvars

\* the follow-up response ends the loop (it asks for no tool, or the cap is reached):
\* return the first text
FollowUpFinal(resp) ==
    /\ pc = "awaiting"
    /\ Len(calls) > 1
    /\ ~LoopContinues(resp, round_count)
    /\ Return(ExtractText(resp.content))
    /\ responses' = Append(responses, resp)
    /\ current_response' = resp
    /\ emitted' = emitted + Len(resp.content)
    /\ UNCHANGED <<last_sources, fresh, messages, round_count, idx, tool_results, calls,
                   dispatches, ret_sources, ret_stale, args, sources_before>>
    /\ UNCHANGED regvars

\* the follow-up response asks for tools and a round is left: the next round begins
FollowUpToolUse(resp) ==
    /\ pc = "awaiting"
    /\ Len(calls) > 1
    /\ LoopContinues(resp, round_count)
    /\ pc' = "exec"
    /\ messages' = Append(messages, [role |-> "assistant", content |-> resp.content])
    /\ responses' = Append(responses, resp)
    /\ current_response' = resp
    /\ emitted' = emitted + Len(resp.content)
    /\ idx' = 1
    /\ tool_results' = <<>>
    /\ UNCHANGED <<last_sources, fresh, round_count, calls, dispatches, answer, outcome,
                   error, ret_sources, ret_stale, args, sources_before>>
    /\ UNCHANGED regvars

\* mutant: the facade stores the whole conversation of the query
AddExchangePersistsMessages(h, sid, question, text) ==
    IF Truthy(sid)
    THEN Append(h, [session_id |-> sid[1], user |-> question, assistant |-> text,
                    messages |-> messages])
    ELSE h

\* the facade: if session_id: session_manager.add_exchange(session_id, query, response)
AddExchange(h, sid, question, text) ==
    IF Truthy(sid)
    THEN Append(h, [session_id |-> sid[1], user |-> question, assistant |-> text])
    ELSE h

\* the facade after generate_response returned: collect, reset, store the exchange, return
QueryFinish ==
    /\ pc = "generated"
    /\ ret_sources' = GetLastSources(last_sources)
    /\ ret_stale' = (NonEmptyTools(last_sources) # <<>>
                     /\ ~fresh[NonEmptyTools(last_sources)[1]])
    /\ last_sources' = ResetSources(last_sources)
    /\ history' = AddExchange(history, session_id, args.query, answer[1])
    /\ pc' = "idle"
    /\ outcome' = "returned"
    /\ UNCHANGED <<fresh, messages, current_response, round_count, idx, tool_results,
                   calls, dispatches, emitted, answer, error, args, responses, sources_before>>
    /\ UNCHANGED <<tools, registrations, probe, threads, session_id>>

\* the steps of generate_response once it was called; over the query the model
\* produces at most `budget` content blocks, its tool_use blocks among `requests`,
\* and the store answers each execution with one of `replies`
Generate(budget, requests, replies) ==
    \/ ModelFails
    \/ \E resp \in Responses(Len(calls), budget - emitted, requests) : FirstDirect(resp)
    \/ \E resp \in Responses(Len(calls), budget - emitted, requests) : FirstToolUse(resp)
    \/ \E resp \in Responses(Len(calls), budget - emitted, requests) : FollowUpFinal(resp)
    \/ \E resp \in Responses(Len(calls), budget - emitted, requests) : FollowUpToolUse(resp)
    \/ \E reply \in replies : ExecuteBlock(reply)
    \/ SkipBlock
    \/ FollowUp

\* one call of generate_response, with any of the argument choices
Next ==
    \/ \E a \in ArgChoices : calls = <<>> /\ QueryBegin(a)
    \/ Generate(MaxBlocks, RoundRequests, StoreAnswers)

Spec == Init /\ [][Next]_vars

\* any number of queries through the facade, one after the other
NextFacade ==
    \/ QueryBegin(FacadeArgs)
    \/ Generate(FacadeBlocks, AllRequests, StoreReplies)
    \/ QueryFinish

SpecFacade == Init /\ [][NextFacade]_vars

\* generate_response called with no history, an empty one, or a history
HistoryChoices == {None, Some(""), Some("User: hi\nAssistant: hello")}

\* one call of generate_response with the facade's tools and any of the histories
NextHistory ==
    \/ \E h \in HistoryChoices :
          calls = <<>> /\ QueryBegin([FacadeArgs EXCEPT !.conversation_history = h])
    \/ Generate(FacadeBlocks, {SearchRequest}, {StoreReply(FALSE, HitResults)})

SpecHistory == Init /\ [][NextHistory]_vars

\* the sessions and the questions of the queries made with a session
SessionIds == {None, Some("s1"), Some("s2")}
Questions == {"What is MCP?", "And lesson 2?"}

\* queries through the facade, each with or without a session
NextSession ==
    \/ \E question \in Questions, sid \in SessionIds : SessionQuery(question, sid)
    \/ Generate(SessionBlocks, {SearchRequest}, {StoreReply(FALSE, HitResults)})
    \/ QueryFinish

SpecSession == Init /\ [][NextSession]_vars

\* the code's scheduling: one synchronous thread, every call it makes returns or
\* raises, so a query that was begun keeps taking steps
NextLive ==
    \/ calls = <<>> /\ QueryBegin(FacadeArgs)
    \/ Generate(LiveBlocks, RoundRequests, StoreAnswers)

SpecLive ==
    Init /\ [][NextLive]_vars /\ WF_vars(Generate(LiveBlocks, RoundRequests, StoreAnswers))

(***************************************************************************)
(* A registry on its own: tools are registered on a new ToolManager and    *)
(* names are dispatched to it.                                             *)
(***************************************************************************)
ToolKinds == {"search", "outline"}

\* what a tool's definition may hold under "name": no such key, "", or a name
DefinitionNames == {None, Some(""), Some(SEARCH), Some(OUTLINE)}

DispatchNames == {SEARCH, OUTLINE, UNREGISTERED}

\* ToolManager(): no tool registered
InitRegistry ==
    /\ last_sources = [t \in ToolNameSet |-> <<>>]
    /\ tools = <<>>
    /\ Quiescent

\* register_tool(tool) is called
Register(tool) ==
    /\ Len(registrations) < MaxRegistrations
    /\ LET r == RegisterTool(tools, tool)
       IN /\ tools' = r.tools
          /\ registrations' = Append(registrations,
                 [tool |-> tool, raised |-> r.raised, text |-> r.text,
                  before |-> tools, after |-> r.tools])
    /\ UNCHANGED <<probe, threads, session_id, history>>
    /\ UNCHANGED queryvars

\* execute_tool(tool_name, query="MCP") is called
Dispatch(tool_name) ==
    /\ probe' = Some([op |-> "execute_tool", name |-> tool_name,
                      at |-> Len(registrations),
                      run |-> RegistryExecute(tools, tool_name, [query |-> "MCP"],
                                              StoreReply(FALSE, HitResults))])
    /\ UNCHANGED <<tools, registrations, threads, session_id, history>>
    /\ UNCHANGED queryvars

NextRegistry ==
    \/ \E kind \in ToolKinds, name \in DefinitionNames :
          Register(ToolInstance(Len(registrations) + 1, kind, name))
    \/ \E tool_name \in DispatchNames : Dispatch(tool_name)

SpecRegistry == InitRegistry /\ [][NextRegistry]_vars

(***************************************************************************)
(* The tools of the facade's registry called directly: one execute_tool    *)
(* call with any arguments, the store answering in any way, on tools that  *)
(* may hold the sources of an earlier call.                                *)
(***************************************************************************)
\* the metadata of one search hit
MetaChoices ==
    { [course_title |-> Some("Intro"), lesson_number |-> Some(1)],
      [course_title |-> Some("Intro"), lesson_number |-> Some(2)],
      [course_title |-> Some("Intro"), lesson_number |-> None],
      [course_title |-> Some("MCP"), lesson_number |-> Some(1)] }

RECURSIVE MetadataOfLen(_)
MetadataOfLen(n) ==
    IF n = 0 THEN {<<>>}
    ELSE {Append(m, x) : m \in MetadataOfLen(n - 1), x \in MetaChoices}

DocumentsOfLen(n) == [i \in 1..n |-> "chunk " \o ToString(i)]

\* SearchResults.error: None, or the message of a failed search
SearchErrors == {None, Some("Search error: store offline")}

\* SearchResults of up to MaxHits documents, each with its metadata, error set or not
SearchResultsChoices ==
    UNION { { [documents |-> DocumentsOfLen(n), metadata |-> m, error |-> e] :
              m \in MetadataOfLen(n), e \in SearchErrors } : n \in 0..MaxHits }

\* the keyword arguments of a search: the query, and each filter supplied or not
SearchKwargsOf(course_name, lesson_number) ==
    [query |-> "MCP"]
    @@ (IF course_name # None THEN [course_name |-> course_name[1]] ELSE <<>>)
    @@ (IF lesson_number # None THEN [lesson_number |-> lesson_number[1]] ELSE <<>>)

SearchKwargs ==
    { SearchKwargsOf(c, l) : c \in {None, Some(""), Some("Intro")},
                             l \in {None, Some(0), Some(1)} }

\* the keyword arguments of an outline request; the last does not bind
OutlineKwargs == { [course_title |-> "Intro"], [course_title |-> "Nope"], [query |-> "Intro"] }

\* what _resolve_course_name may return: no course, a course of the catalog, or a
\* title the catalog's metadata does not hold
Resolutions == {None, Some("Intro"), Some("Ghost")}

\* what the tools may hold from an earlier call
PriorSources ==
    { [t \in ToolNameSet |-> <<>>],
      [t \in ToolNameSet |-> IF t = SEARCH THEN <<Source("MCP - Lesson 1", None)>> ELSE <<>>],
      [t \in ToolNameSet |-> IF t = OUTLINE THEN <<Source("Intro", Some("https://x/intro"))>>
                             ELSE <<>>],
      [t \in ToolNameSet |-> IF t = OUTLINE THEN <<Source("MCP", Some("https://x/mcp"))>>
                             ELSE <<Source("MCP - Lesson 1", None)>>] }

InitTools ==
    /\ last_sources \in PriorSources
    /\ tools = FacadeTools
    /\ Quiescent

\* execute_tool(tool_name, **kwargs) is called on the registry, the store answering
\* with `reply`
CallTool(tool_name, kwargs, reply) ==
    /\ probe = None
    /\ LET r == ExecuteTool(tool_name, kwargs, reply)
       IN /\ last_sources' = IF r.assigned # None
                             THEN [last_sources EXCEPT ![tool_name] = r.assigned[1]]
                             ELSE last_sources
          /\ probe' = Some([op |-> "tool", name |-> tool_name, kwargs |-> kwargs,
                            reply |-> reply, result |-> r, before |-> last_sources])
    /\ UNCHANGED <<tools, registrations, threads, session_id, history>>
    /\ UNCHANGED <<fresh, pc, messages, current_response, round_count, idx, tool_results,
                   calls, dispatches, emitted, answer, outcome, error, ret_sources,
                   ret_stale, args, responses, sources_before>>

\* CourseSearchTool.execute through the registry
CallSearch(kwargs, results) ==
    CallTool(SEARCH, kwargs,
             [raises |-> FALSE, results |-> results, resolved |-> None, courses |-> Catalog])

\* CourseOutlineTool.execute through the registry
CallOutline(kwargs, resolved, raises, courses) ==
    CallTool(OUTLINE, kwargs,
             [raises |-> raises, results |-> ErrorResults, resolved |-> resolved,
              courses |-> courses])

NextTools ==
    \/ \E kwargs \in SearchKwargs, results \in SearchResultsChoices :
          CallSearch(kwargs, results)
    \/ \E kwargs \in OutlineKwargs, resolved \in Resolutions, raises \in BOOLEAN,
          courses \in Catalogs :
          CallOutline(kwargs, resolved, raises, courses)

SpecTools == InitTools /\ [][NextTools]_vars

(***************************************************************************)
(* Queries made on one facade from several threads.  The facade holds one  *)
(* registry and one instance of each tool; nothing in the tools or the     *)
(* registry locks last_sources.  A thread's query is generate_response     *)
(* (its tool executions), then get_last_sources, then reset_sources; the   *)
(* steps of different threads interleave in any order.                     *)
(***************************************************************************)
\* what the store answers to a tool execution of a thread: one hit, or an error
ThreadReplies ==
    { StoreReply(FALSE, [documents |-> DocumentsOfLen(1), metadata |-> <<m>>, error |-> None]) :
      m \in MetaChoices }
    \cup { StoreReply(FALSE, ErrorResults) }

ThreadRequests == {SearchRequest, OutlineRequest}

\* thread q calls query(): generate_response begins
ThreadBegin(q) ==
    /\ threads[q].pc = "idle"
    /\ threads' = [threads EXCEPT ![q].pc = "running"]
    /\ UNCHANGED <<tools, registrations, probe, session_id, history>>
    /\ UNCHANGED queryvars

\* generate_response of thread q dispatches a tool call
ThreadExecute(q, request, reply) ==
    /\ threads[q].pc = "running"
    /\ threads[q].executions < MaxThreadCalls
    /\ LET r == TryExecuteTool(request.name, request.input, reply)
       IN /\ last_sources' = IF r.assigned # None
                             THEN [last_sources EXCEPT ![request.name] = r.assigned[1]]
                             ELSE last_sources
          /\ threads' = [threads EXCEPT
                 ![q].executions = @ + 1,
                 ![q].recorded = IF r.assigned # None
                                 THEN @ \cup {r.assigned[1][i] : i \in 1..Len(r.assigned[1])}
                                 ELSE @]
    /\ UNCHANGED <<tools, registrations, probe, session_id, history>>
    /\ UNCHANGED <<fresh, pc, messages, current_response, round_count, idx, tool_results,
                   calls, dispatches, emitted, answer, outcome, error, ret_sources,
                   ret_stale, args, responses, sources_before>>

\* generate_response of thread q returns the answer
ThreadAnswer(q) ==
    /\ threads[q].pc = "running"
    /\ threads' = [threads EXCEPT ![q].pc = "generated"]
    /\ UNCHANGED <<tools, registrations, probe, session_id, history>>
    /\ UNCHANGED queryvars

\* the facade, for thread q: sources = tool_manager.get_last_sources()
ThreadCollect(q) ==
    /\ threads[q].pc = "generated"
    /\ threads' = [threads EXCEPT ![q].pc = "collected",
                                  ![q].collected = GetLastSources(last_sources)]
    /\ UNCHANGED <<tools, registrations, probe, session_id, history>>
    /\ UNCHANGED queryvars

\* the facade, for thread q: tool_manager.reset_sources(), and query() returns
ThreadReset(q) ==
    /\ threads[q].pc = "collected"
    /\ last_sources' = ResetSources(last_sources)
    /\ threads' = [threads EXCEPT ![q].pc = "returned"]
    /\ UNCHANGED <<tools, registrations, probe, session_id, history>>
    /\ UNCHANGED <<fresh, pc, messages, current_response, round_count, idx, tool_results,
                   calls, dispatches, emitted, answer, outcome, error, ret_sources,
                   ret_stale, args, responses, sources_before>>

NextThreads ==
    \E q \in Threads :
        \/ ThreadBegin(q)
        \/ \E request \in ThreadRequests, reply \in ThreadReplies :
              ThreadExecute(q, request, reply)
        \/ ThreadAnswer(q)
        \/ ThreadCollect(q)
        \/ ThreadReset(q)

SpecThreads == Init /\ [][NextThreads]_vars

(***************************************************************************)
(* Properties                                                              *)
(***************************************************************************)
ToolUses(content) == SelectSeq(content, LAMBDA b : b.type = "tool_use")
TextBlocks(content) == SelectSeq(content, LAMBDA b : b.type = "text")

\* the messages of the conversation with role assistant, in order
Assistants == SelectSeq(messages, LAMBDA m : m.role = "assistant")

\* generate_response is over: it returned or an exception left it
Ended == pc = "generated" \/ outcome \in {"returned", "raised"}

\* a model call of the query got no response: it failed
ModelCallFailed == pc # "awaiting" /\ Len(calls) > Len(responses)

\* the last response of `responses` is the one the query ended on
OnFinalResponse == Ended /\ responses # <<>> /\ ~ModelCallFailed

RECURSIVE CountToolUses(_, _)
\* the number of tool_use blocks of the first k responses
CountToolUses(resps, k) ==
    IF k = 0 THEN 0 ELSE Len(ToolUses(resps[k].content)) + CountToolUses(resps, k - 1)

RECURSIVE ToolUseIds(_, _)
\* the ids of the tool_use blocks of the first k responses, in order
ToolUseIds(resps, k) ==
    IF k = 0 THEN <<>>
    ELSE ToolUseIds(resps, k - 1)
         \o [j \in 1..Len(ToolUses(resps[k].content)) |-> ToolUses(resps[k].content)[j].id]

\* the query has ended and every response had stop_reason tool_use and a tool_use block
EveryResponseRequestsTool ==
    /\ OnFinalResponse
    /\ args.tools # <<>> /\ args.tool_manager
    /\ \A i \in 1..Len(responses) :
          /\ responses[i].stop_reason = "tool_use"
          /\ ToolUses(responses[i].content) # <<>>

\* C1 as stated: when every response (the first and every follow-up) has stop_reason
\* tool_use and requests a tool, there are exactly R + 1 = 3 model calls, exactly
\* R = 2 tool dispatches, and the last call carries no tool definitions.
C1_AsStated ==
    EveryResponseRequestsTool =>
        /\ Len(calls) = MAX_TOOL_ROUNDS + 1
        /\ Len(dispatches) = MAX_TOOL_ROUNDS
        /\ calls[Len(calls)].tools = None

\* C1 amended: when every response has stop_reason tool_use and requests a tool,
\* there are exactly R + 1 = 3 model calls and exactly R = 2 rounds of dispatches:
\* one dispatch for each tool_use block of the first R responses (2 dispatches when
\* each of them holds one tool_use block), none for the last response; and the last
\* call carries neither tool definitions nor tool_choice.
C1_RoundCap ==
    EveryResponseRequestsTool =>
        /\ Len(calls) = MAX_TOOL_ROUNDS + 1
        /\ Len(responses) = MAX_TOOL_ROUNDS + 1
        /\ round_count = MAX_TOOL_ROUNDS
        /\ Len(dispatches) = CountToolUses(responses, MAX_TOOL_ROUNDS)
        /\ \A i \in 1..Len(dispatches) : dispatches[i].call <= MAX_TOOL_ROUNDS
        /\ (\A i \in 1..MAX_TOOL_ROUNDS : Len(ToolUses(responses[i].content)) = 1)
              => Len(dispatches) = MAX_TOOL_ROUNDS
        /\ calls[Len(calls)].tools = None
        /\ calls[Len(calls)].tool_choice = None

\* three responses with one tool_use block each: two dispatches, three calls
C1_Witness ==
    /\ EveryResponseRequestsTool
    /\ Len(dispatches) = MAX_TOOL_ROUNDS
    /\ Len(calls) = MAX_TOOL_ROUNDS + 1

C2_Bounded ==
    /\ Len(calls) <= MAX_TOOL_ROUNDS + 1
    /\ Len(Assistants) <= MAX_TOOL_ROUNDS
    /\ \A i \in 1..Len(dispatches) : dispatches[i].call <= MAX_TOOL_ROUNDS
    /\ round_count <= MAX_TOOL_ROUNDS

\* C2: whatever the model responds and however the tools end, a query that was begun
\* ends, with at most R + 1 model calls and with tools executed for at most R
\* responses; the response to the call made at the cap is never dispatched.
C2_Termination == []C2_Bounded /\ ((pc = "awaiting") ~> Ended)

\* the response to the third call still asks for a tool and the query has ended
C2_Witness ==
    /\ pc = "generated"
    /\ Len(calls) = MAX_TOOL_ROUNDS + 1
    /\ responses[Len(responses)].stop_reason = "tool_use"
    /\ Len(dispatches) >= MAX_TOOL_ROUNDS

\* C3: in a query given a non-empty tool list the first call, and every follow-up
\* call made with the round counter below R, carries the whole tool list and
\* tool_choice auto; the follow-up call made with the counter at R carries neither.
\* In every call tool_choice is present exactly when tools is.  (Call i is made
\* with the round counter at i - 1.)
C3_ToolAvailability ==
    /\ calls # <<>> => Len(calls) = round_count + 1
    /\ \A i \in 1..Len(calls) :
          /\ (calls[i].tool_choice # None) <=> (calls[i].tools # None)
          /\ args.tools # <<>> =>
                IF i - 1 < MAX_TOOL_ROUNDS
                THEN /\ calls[i].tools = Some(args.tools)
                     /\ calls[i].tool_choice = Some([type |-> "auto"])
                ELSE /\ calls[i].tools = None
                     /\ calls[i].tool_choice = None

\* a query with tools has made its call at the cap, after a call with tools
C3_Witness ==
    /\ args.tools # <<>>
    /\ Len(calls) = MAX_TOOL_ROUNDS + 1
    /\ calls[MAX_TOOL_ROUNDS].tools # None
    /\ calls[MAX_TOOL_ROUNDS + 1].tools = None

\* C4: when the model asks for tools in its first k responses, 1 <= k < R, and its
\* next response has another stop_reason, the query makes exactly k + 1 model calls,
\* executes the tools of exactly those k responses and returns the text of the last
\* response.
C4_EarlyTermination ==
    \A k \in 1..(MAX_TOOL_ROUNDS - 1) :
        ( /\ OnFinalResponse
          /\ args.tool_manager
          /\ Len(responses) > k
          /\ \A i \in 1..k : responses[i].stop_reason = "tool_use"
          /\ responses[k + 1].stop_reason # "tool_use" )
        => /\ Len(calls) = k + 1
           /\ Len(responses) = k + 1
           /\ round_count = k
           /\ [i \in 1..Len(dispatches) |-> dispatches[i].id] = ToolUseIds(responses, k)
           /\ outcome # "raised"
           /\ TextBlocks(responses[k + 1].content) # <<>>
                 => answer = Some(TextBlocks(responses[k + 1].content)[1].text)

\* one round of tools, then an answer in text
C4_Witness ==
    /\ pc = "generated"
    /\ Len(responses) = 2
    /\ responses[1].stop_reason = "tool_use"
    /\ responses[2].stop_reason = "end_turn"
    /\ Len(dispatches) >= 1
    /\ answer = Some("text 2.1")

\* the first response is a direct answer: end_turn, text, no tool_use block
DirectAnswer ==
    /\ responses # <<>>
    /\ responses[1].stop_reason = "end_turn"
    /\ ToolUses(responses[1].content) = <<>>
    /\ TextBlocks(responses[1].content) # <<>>

\* C5: when the first response asks for no tool (end_turn, with text), the query
\* makes one model call, dispatches no tool, returns that text unchanged and leaves
\* every tool's last_sources as it was (empty when it was empty).
C5_ZeroRounds ==
    DirectAnswer =>
        /\ Len(calls) = 1
        /\ Len(responses) = 1
        /\ dispatches = <<>>
        /\ outcome # "raised"
        /\ answer = Some(responses[1].content[1].text)
        /\ pc = "generated" => last_sources = sources_before

\* a direct answer was returned
C5_Witness ==
    /\ DirectAnswer
    /\ pc = "generated"
    /\ answer = Some("text 1.1")
    /\ GetLastSources(last_sources) = <<>>

\* every tool_result block the query has recorded, in order
RECURSIVE ResultsIn(_)
ResultsIn(msgs) ==
    IF msgs = <<>> THEN <<>>
    ELSE (IF msgs[1].role = "user" THEN msgs[1].content ELSE <<>>) \o ResultsIn(Tail(msgs))

\* (the first message is the user's question)
AllResults ==
    (IF messages = <<>> THEN <<>> ELSE ResultsIn(Tail(messages)))
    \o (IF pc = "exec" THEN tool_results ELSE <<>>)

ExceptionsOfTheCode == {"APIError", "IndexError", "AttributeError"}

\* C6: an exception raised while a tool call is dispatched never leaves
\* generate_response: the call's tool_result holds 'Tool execution error: ' followed
\* by the exception's message, the remaining tool calls of the round are dispatched
\* and the follow-up model call is made.
C6_ToolFaultsRecovered ==
    /\ outcome = "raised" => error \in ExceptionsOfTheCode
    /\ Len(AllResults) = Len(dispatches)
    /\ \A i \in 1..Len(dispatches) :
          /\ AllResults[i].tool_use_id = dispatches[i].id
          /\ dispatches[i].raised =>
                AllResults[i].content = "Tool execution error: " \o dispatches[i].text
    /\ pc \in {"awaiting", "generated"} =>
          /\ [i \in 1..Len(dispatches) |-> dispatches[i].id]
                = ToolUseIds(responses, Len(Assistants))
          /\ Len(calls) = Len(Assistants) + 1

\* a dispatch raised, the next tool call of the same round was dispatched and the
\* follow-up call was made
C6_Witness ==
    \E i \in 1..Len(dispatches) :
        /\ dispatches[i].raised
        /\ i < Len(dispatches)
        /\ dispatches[i + 1].call = dispatches[i].call
        /\ Len(calls) > dispatches[i].call
        /\ pc = "generated"

\* C7: when a model call of a query fails, the first or a follow-up, the failure
\* leaves generate_response and the facade's query, the call is not made again and
\* the query returns no answer and no sources.
C7_ModelFaultFatal ==
    ModelCallFailed =>
        /\ pc = "idle"
        /\ outcome = "raised"
        /\ error = "APIError"
        /\ answer = None
        /\ ret_sources = <<>>
        /\ Len(calls) = Len(responses) + 1

\* a follow-up call failed after tools were executed
C7_Witness ==
    /\ ModelCallFailed
    /\ Len(calls) >= 2
    /\ dispatches # <<>>

\* the tool_result blocks match the tool_use blocks: as many, same order, same ids
Correlated(results, uses) ==
    /\ Len(results) = Len(uses)
    /\ \A j \in 1..Len(results) :
          /\ results[j].type = "tool_result"
          /\ results[j].tool_use_id = uses[j].id

\* C8: in every round the tool-result message appended after the assistant's message
\* holds one tool_result per tool_use block of that message, in the same order, each
\* with the id of its tool_use block.
C8_CallIdCorrelation ==
    \A i \in 1..Len(messages) :
        messages[i].role = "assistant" =>
            LET uses == ToolUses(messages[i].content)
            IN IF i = Len(messages) /\ pc = "exec"
               THEN \* the round is in progress
                    /\ Len(tool_results) <= Len(uses)
                    /\ Correlated(tool_results, SubSeq(uses, 1, Len(tool_results)))
               ELSE uses # <<>> =>
                    /\ i < Len(messages)
                    /\ messages[i + 1].role = "user"
                    /\ Correlated(messages[i + 1].content, uses)

\* a finished round whose response held a text block and then two tool_use blocks
C8_Witness ==
    \E i \in 1..Len(messages) :
        /\ messages[i].role = "assistant"
        /\ i < Len(messages)
        /\ Len(ToolUses(messages[i].content)) = 2
        /\ Len(TextBlocks(messages[i].content)) = 1
        /\ Len(messages[i + 1].content) = 2

\* C9 as stated: whenever the response a query ends on holds no text block (an empty
\* content list included), on the zero-round path or after tool rounds,
\* generate_response returns the empty string rather than failing.
C9_EmptyAnswerFallback ==
    (OnFinalResponse /\ TextBlocks(responses[Len(responses)].content) = <<>>)
        => outcome # "raised" /\ answer = Some("")

\* C10 as stated: the sources a query returns were all recorded by tool executions of
\* that same query; a query that executes no tool returns no sources.
C10_NoLeakAcrossQueries ==
    outcome = "returned" =>
        /\ ~ret_stale
        /\ dispatches = <<>> => ret_sources = <<>>

\* the dispatches of the query that ran a registered tool to its return
Executed == SelectSeq(dispatches, LAMBDA d : d.name \in ToolNameSet /\ ~d.raised)

\* the sources a tool call produced: the list it recorded, none when it recorded none
Produced(d) == IF d.assigned # None THEN d.assigned[1] ELSE <<>>

\* C11 as stated: once tools were executed through the registry, get_last_sources
\* returns the sources produced by the most recently executed tool call.
C11_MostRecentExecution ==
    (pc \in {"exec", "awaiting", "generated"} /\ Executed # <<>>)
        => GetLastSources(last_sources) = Produced(Executed[Len(Executed)])

\* no tool holds a source
NoSources == \A t \in DOMAIN last_sources : last_sources[t] = <<>>

\* a step taken while generate_response runs touches the registry by dispatch only:
\* it collects nothing, and a last_sources that changes was assigned by a dispatched
\* tool, never cleared
DispatchOnly ==
    pc \in {"awaiting", "exec"} =>
        /\ ret_sources' = ret_sources
        /\ last_sources' # last_sources =>
              /\ Len(dispatches') = Len(dispatches) + 1
              /\ \A t \in DOMAIN last_sources :
                    last_sources'[t] # last_sources[t] => last_sources'[t] # <<>>

\* the step that follows the final answer collects what the registry holds and
\* clears it, at once; no other step of the facade collects or clears
CollectThenClear ==
    /\ pc = "generated" =>
          /\ answer # None
          /\ ret_sources' = GetLastSources(last_sources)
          /\ \A t \in DOMAIN last_sources : last_sources'[t] = <<>>
          /\ outcome' = "returned"
    /\ pc = "idle" => last_sources' = last_sources

\* C12: in each query the sources are collected only after generate_response has
\* produced the final answer and are then cleared once, so that every tool's
\* last_sources is empty once the query has returned; between the rounds nothing is
\* collected or cleared, the only registry operation being dispatch.
C12_CollectThenClearOrder ==
    /\ [](outcome = "returned" => NoSources)
    /\ [][DispatchOnly /\ CollectThenClear]_vars

\* a query returned the sources of an outline it had run, and the registry is clear
C12_Witness ==
    /\ outcome = "returned"
    /\ \E i \in 1..Len(dispatches) :
          dispatches[i].name = OUTLINE /\ dispatches[i].assigned = Some(ret_sources)
    /\ NoSources

\* the string sub occurs in the string s
Contains(s, sub) ==
    \E k \in 1..(Len(s) + 1) :
        k + Len(sub) - 1 <= Len(s) /\ SubSeq(s, k, k + Len(sub) - 1) = sub

\* the dispatches made to a name no tool is registered under
UnknownDispatches == {i \in 1..Len(dispatches) : dispatches[i].name \notin ToolNameSet}

\* C13: a dispatch to an unregistered name does not raise: execute_tool returns a
\* text holding 'not found' and the name, no tool runs, every tool's last_sources
\* and the registry stay as they were, and the text goes back to the model as an
\* ordinary tool_result.
C13_UnknownToolNotFound ==
    /\ [](\A i \in UnknownDispatches :
            /\ ~dispatches[i].raised
            /\ Contains(dispatches[i].text, "not found")
            /\ Contains(dispatches[i].text, dispatches[i].name)
            /\ dispatches[i].assigned = None
            /\ AllResults[i] = [type |-> "tool_result", tool_use_id |-> dispatches[i].id,
                                content |-> dispatches[i].text])
    /\ [][(Len(dispatches') = Len(dispatches) + 1
             /\ dispatches'[Len(dispatches')].name \notin ToolNameSet)
          => (last_sources' = last_sources /\ tools' = tools /\ outcome' = outcome)]_vars

\* an unregistered name was dispatched after a search had recorded sources, and the
\* follow-up call was made with its result
C13_Witness ==
    \E i \in UnknownDispatches :
        /\ i > 1
        /\ dispatches[i - 1].assigned # None
        /\ GetLastSources(last_sources) # <<>>
        /\ Len(calls) > dispatches[i].call

\* the registrations among the first n that did not raise
Accepted(n) == {i \in 1..n : ~registrations[i].raised}

\* the names registered by the first n registrations
NamesRegistered(n) == {registrations[i].tool.name[1] : i \in Accepted(n)}

\* the instance most recently registered under name k by the first n registrations
Latest(n, k) ==
    LET under == {i \in Accepted(n) : registrations[i].tool.name[1] = k}
    IN registrations[CHOOSE i \in under : \A j \in under : j <= i].tool

\* C14: after any sequence of register_tool calls get_tool_definitions has as many
\* entries as distinct names were registered, and a dispatch to a name runs the tool
\* most recently registered under it: a registration under a name in use replaces,
\* it is neither appended nor rejected.
C14_RegistrationReplaces ==
    LET n == Len(registrations)
    IN /\ Len(ToolDefinitions(tools)) = Cardinality(NamesRegistered(n))
       /\ {ToolDefinitions(tools)[i].name : i \in 1..Len(tools)} = NamesRegistered(n)
       /\ \A k \in NamesRegistered(n) : DictGet(tools, k) = Latest(n, k)
       /\ \A i \in 1..n :
             (Truthy(registrations[i].tool.name) /\ registrations[i].tool.name[1] \in NamesRegistered(i - 1))
                => /\ ~registrations[i].raised
                   /\ Len(registrations[i].after) = Len(registrations[i].before)
       /\ (probe # None /\ probe[1].op = "execute_tool") =>
             IF probe[1].name \in NamesRegistered(probe[1].at)
             THEN probe[1].run.ran = Latest(probe[1].at, probe[1].name).id
             ELSE probe[1].run.ran = 0

\* a name was registered twice and then dispatched: the second instance ran
C14_Witness ==
    /\ probe # None
    /\ probe[1].op = "execute_tool"
    /\ probe[1].at = 3
    /\ Cardinality(NamesRegistered(3)) = 2
    /\ Cardinality(Accepted(3)) = 3
    /\ registrations[1].tool.name = Some(probe[1].name)
    /\ registrations[3].tool.name = Some(probe[1].name)
    /\ probe[1].run.ran = 3

\* C15: registering a tool whose definition has no name, or an empty one, raises
\* ValueError and leaves the registry as it was: nothing added, replaced or removed.
C15_UnnamedToolRejected ==
    \A i \in 1..Len(registrations) :
        ~Truthy(registrations[i].tool.name) =>
            /\ registrations[i].raised
            /\ registrations[i].text = "Tool must have a 'name' in its definition"
            /\ registrations[i].after = registrations[i].before
            /\ i = Len(registrations) => tools = registrations[i].before

\* a tool without a name and one with an empty name were refused by a registry that
\* held a tool
C15_Witness ==
    /\ Len(registrations) = 3
    /\ ~registrations[1].raised
    /\ registrations[2].tool.name = None /\ registrations[2].raised
    /\ registrations[3].tool.name = Some("") /\ registrations[3].raised
    /\ Len(tools) = 1

\* a tool was called directly: the call and its result
Called == probe # None /\ probe[1].op = "tool"
TheCall == probe[1]

\* the calls of `method` among the store calls of the result
CallsOf(method) == SelectSeq(TheCall.result.store_calls, LAMBDA c : c.method = method)

\* C16: when the SearchResults have their error set, whatever documents and metadata
\* they hold, CourseSearchTool.execute returns exactly the error string and formats
\* no document.
C16_SearchErrorPassThrough ==
    (Called /\ TheCall.name = SEARCH /\ TheCall.reply.results.error # None) =>
        /\ ~TheCall.result.raised
        /\ TheCall.result.text = TheCall.reply.results.error[1]
        /\ TheCall.result.assigned = None
        /\ CallsOf("get_lesson_link") = <<>>
        /\ last_sources = TheCall.before

\* a search whose results hold an error and documents too
C16_Witness ==
    /\ Called
    /\ TheCall.name = SEARCH
    /\ TheCall.reply.results.error # None
    /\ Len(TheCall.reply.results.documents) >= 2
    /\ TheCall.result.text = "Search error: store offline"

\* the search found nothing: no error, no documents
NoMatch ==
    /\ Called
    /\ TheCall.name = SEARCH
    /\ TheCall.reply.results.error = None
    /\ TheCall.reply.results.documents = <<>>

\* C17 as stated: when the results hold no document and no error, execute returns a
\* message holding 'No relevant content found' that names the value of every filter
\* the call supplied: any course_name, any lesson_number, lesson 0 included.
C17_NoMatchNamesFilters ==
    NoMatch =>
        /\ ~TheCall.result.raised
        /\ Contains(TheCall.result.text, "No relevant content found")
        /\ "course_name" \in DOMAIN TheCall.kwargs =>
              Contains(TheCall.result.text, "course '" \o TheCall.kwargs.course_name \o "'")
        /\ "lesson_number" \in DOMAIN TheCall.kwargs =>
              Contains(TheCall.result.text,
                       "lesson " \o ToString(TheCall.kwargs.lesson_number))

\* the search formatted its results
Formatted ==
    /\ Called
    /\ TheCall.name = SEARCH
    /\ TheCall.reply.results.error = None
    /\ TheCall.reply.results.documents # <<>>

RECURSIVE DistinctPairs(_, _)
\* the distinct (course_title, lesson_number) pairs of the first n metadata entries,
\* in the order of their first occurrence
DistinctPairs(metadata, n) ==
    IF n = 0 THEN <<>>
    ELSE LET prev == DistinctPairs(metadata, n - 1)
             pair == <<metadata[n].course_title[1], metadata[n].lesson_number>>
         IN IF \E i \in 1..Len(prev) : prev[i] = pair THEN prev ELSE Append(prev, pair)

ThePairs == DistinctPairs(TheCall.reply.results.metadata, Len(TheCall.reply.results.metadata))

\* the label of a pair
PairLabel(pair) ==
    IF pair[2] = None THEN pair[1] ELSE pair[1] \o " - Lesson " \o ToString(pair[2][1])

\* C18: after a search that formats results the tool's last_sources holds one Source
\* for each distinct (course_title, lesson_number) pair of the metadata, in the order
\* of first occurrence.
C18_SourceDeduplication ==
    Formatted =>
        /\ TheCall.result.assigned = Some(last_sources[SEARCH])
        /\ Len(last_sources[SEARCH]) = Len(ThePairs)
        /\ \A i \in 1..Len(ThePairs) : last_sources[SEARCH][i].text = PairLabel(ThePairs[i])

\* the metadata pairs (Intro,1),(Intro,1),(Intro,2) gave the sources (Intro,1),(Intro,2)
C18_Witness ==
    /\ Formatted
    /\ TheCall.reply.results.metadata =
          << [course_title |-> Some("Intro"), lesson_number |-> Some(1)],
             [course_title |-> Some("Intro"), lesson_number |-> Some(1)],
             [course_title |-> Some("Intro"), lesson_number |-> Some(2)] >>
    /\ last_sources[SEARCH] = << Source("Intro - Lesson 1", Some("https://x/intro/1")),
                                 Source("Intro - Lesson 2", None) >>

\* the pairs that have a lesson number
WithLesson == SelectSeq(ThePairs, LAMBDA pair : pair[2] # None)

\* C19: while the results are formatted get_lesson_link is called once for each
\* recorded source that has a lesson number and for no other result; a source without
\* lesson number is labelled with the course title and has no link, a source with one
\* is labelled '<course> - Lesson <n>' and has the link the store resolved.
C19_LessonLinkLookups ==
    Formatted =>
        /\ CallsOf("get_lesson_link")
              = [i \in 1..Len(WithLesson) |->
                    StoreCall("get_lesson_link", <<WithLesson[i][1], WithLesson[i][2][1]>>)]
        /\ Len(TheCall.result.assigned[1]) = Len(ThePairs)
        /\ \A i \in 1..Len(ThePairs) :
              TheCall.result.assigned[1][i] =
                 IF ThePairs[i][2] = None
                 THEN Source(ThePairs[i][1], None)
                 ELSE Source(ThePairs[i][1] \o " - Lesson " \o ToString(ThePairs[i][2][1]),
                             GetLessonLink(ThePairs[i][1], ThePairs[i][2][1]))

\* results with a lesson met twice and a result without lesson: one lookup
C19_Witness ==
    /\ Formatted
    /\ Len(TheCall.reply.results.metadata) = 3
    /\ Len(CallsOf("get_lesson_link")) = 1
    /\ TheCall.result.assigned =
          Some(<< Source("Intro - Lesson 1", Some("https://x/intro/1")), Source("Intro", None) >>)

\* the outline tool was called with a title the store could not resolve
Unresolved ==
    /\ Called
    /\ TheCall.name = OUTLINE
    /\ "course_title" \in DOMAIN TheCall.kwargs
    /\ ~TheCall.reply.raises
    /\ ~Truthy(TheCall.reply.resolved)

\* C20: when the store cannot resolve the title, CourseOutlineTool.execute returns a
\* 'No course found' message naming the title it was given, fetches no course
\* metadata, guesses no other course and records no source.
C20_OutlineUnresolvedTitle ==
    Unresolved =>
        /\ ~TheCall.result.raised
        /\ TheCall.result.text
              = "No course found matching '" \o TheCall.kwargs.course_title \o "'"
        /\ Contains(TheCall.result.text, "No course found")
        /\ Contains(TheCall.result.text, TheCall.kwargs.course_title)
        /\ TheCall.result.store_calls
              = <<StoreCall("_resolve_course_name", <<TheCall.kwargs.course_title>>)>>
        /\ CallsOf("get_all_courses_metadata") = <<>>
        /\ TheCall.result.assigned = None
        /\ last_sources = TheCall.before

\* the title 'Nope' did not resolve, on a tool that held the source of an earlier
\* outline
C20_Witness ==
    /\ Unresolved
    /\ TheCall.kwargs.course_title = "Nope"
    /\ TheCall.result.text = "No course found matching 'Nope'"
    /\ last_sources[OUTLINE] # <<>>

\* the outline tool was called, the title resolved, and no course of the store's
\* metadata has the resolved title
MetadataMissing ==
    /\ Called
    /\ TheCall.name = OUTLINE
    /\ "course_title" \in DOMAIN TheCall.kwargs
    /\ ~TheCall.reply.raises
    /\ Truthy(TheCall.reply.resolved)
    /\ \A c \in 1..Len(TheCall.reply.courses) :
          TheCall.reply.courses[c].title # TheCall.reply.resolved[1]

\* C21: when the title resolves but no stored course metadata has the resolved title,
\* CourseOutlineTool.execute returns a 'Could not retrieve metadata' message, which is
\* not the 'No course found' message, and records no source.
C21_OutlineMetadataMissing ==
    MetadataMissing =>
        /\ ~TheCall.result.raised
        /\ TheCall.result.text
              = "Could not retrieve metadata for course '" \o TheCall.reply.resolved[1] \o "'"
        /\ Contains(TheCall.result.text, "Could not retrieve metadata")
        /\ ~Contains(TheCall.result.text, "No course found")
        /\ TheCall.result.text # "No course found matching '" \o TheCall.kwargs.course_title \o "'"
        /\ TheCall.result.assigned = None
        /\ last_sources = TheCall.before

\* the title resolved to 'Ghost', which the metadata does not hold, on a tool that
\* held the source of an earlier outline
C21_Witness ==
    /\ MetadataMissing
    /\ TheCall.reply.resolved = Some("Ghost")
    /\ CallsOf("get_all_courses_metadata") # <<>>
    /\ TheCall.result.text = "Could not retrieve metadata for course 'Ghost'"
    /\ last_sources[OUTLINE] # <<>>

\* the outline tool was called and formatted the outline of a course
OutlineFormatted ==
    /\ Called
    /\ TheCall.name = OUTLINE
    /\ "course_title" \in DOMAIN TheCall.kwargs
    /\ ~TheCall.reply.raises
    /\ Truthy(TheCall.reply.resolved)
    /\ \E c \in 1..Len(TheCall.reply.courses) :
          TheCall.reply.courses[c].title = TheCall.reply.resolved[1]

\* C22: after a successful outline execution the outline tool's last_sources holds
\* exactly one Source, with the course title and the course link, whatever it held
\* before: what it held is replaced, not appended to.
C22_OutlineSourceReplaced ==
    OutlineFormatted =>
        /\ ~TheCall.result.raised
        /\ Len(last_sources[OUTLINE]) = 1
        /\ \E c \in 1..Len(TheCall.reply.courses) :
              /\ TheCall.reply.courses[c].title = TheCall.reply.resolved[1]
              /\ last_sources[OUTLINE][1]
                    = Source(TheCall.reply.courses[c].title,
                             Some(TheCall.reply.courses[c].course_link))
        /\ last_sources[SEARCH] = TheCall.before[SEARCH]

\* the outline of 'Intro' on a tool that held the source of the outline of 'MCP'
C22_Witness ==
    /\ OutlineFormatted
    /\ TheCall.before[OUTLINE] = <<Source("MCP", Some("https://x/mcp"))>>
    /\ last_sources[OUTLINE] = <<Source("Intro", Some("https://x/intro"))>>

\* the sources of the list ls
SourcesOf(ls) == {ls[i] : i \in 1..Len(ls)}

\* C23 as stated: when queries run concurrently, in every interleaving a query
\* collects only sources that its own tool executions recorded, and what they
\* recorded is not overwritten or cleared by another query before it collects.
C23_NoSharedCitationState ==
    \A q \in Threads :
        threads[q].pc \in {"collected", "returned"} =>
            /\ SourcesOf(threads[q].collected) \subseteq threads[q].recorded
            /\ threads[q].recorded # {} => threads[q].collected # <<>>

\* the dispatches made while c model calls had been issued, in the order made
DispatchesOf(c) == SelectSeq(dispatches, LAMBDA d : d.call = c)

\* the sequence a is an initial part of the sequence b
IsPrefix(a, b) == Len(a) <= Len(b) /\ \A i \in 1..Len(a) : a[i] = b[i]

\* the tool_use blocks of response c as (name, id) pairs, in the order listed
Listed(c) ==
    [j \in 1..Len(ToolUses(responses[c].content)) |->
        <<ToolUses(responses[c].content)[j].name, ToolUses(responses[c].content)[j].id>>]

\* the dispatches of round c as (name, id) pairs, in the order made
Dispatched(c) ==
    [j \in 1..Len(DispatchesOf(c)) |-> <<DispatchesOf(c)[j].name, DispatchesOf(c)[j].id>>]

\* C24: the tool_use blocks of a response are dispatched one after another in
\* the order the model listed them (the dispatches of a round are an initial
\* part of the listed blocks, made at increasing positions), all of them are
\* dispatched before the next model call is issued, and at most one model call
\* is outstanding at any time, none while tools execute.
C24_InRoundOrdering ==
    /\ \A i \in 1..Len(dispatches) :
          /\ dispatches[i].call \in 1..Len(Assistants)
          /\ dispatches[i].call <= Len(responses)
    /\ \A i \in 1..Len(dispatches), j \in 1..Len(dispatches) :
          i < j => \/ dispatches[i].call < dispatches[j].call
                   \/ /\ dispatches[i].call = dispatches[j].call
                      /\ dispatches[i].pos < dispatches[j].pos
    /\ \A c \in 1..Len(Assistants) :
          /\ IsPrefix(Dispatched(c), Listed(c))
          /\ Len(calls) > c => Dispatched(c) = Listed(c)
    /\ Len(calls) \in {Len(responses), Len(responses) + 1}
    /\ pc = "awaiting" <=> (Len(calls) = Len(responses) + 1 /\ outcome = "none")
    /\ pc = "exec" => Len(calls) = Len(responses)

\* two rounds ran; the first response listed two tool_use blocks (a text block
\* among them), both were dispatched in order before the second call
C24_Witness ==
    /\ Len(calls) = 3
    /\ Len(Listed(1)) >= 2
    /\ Len(responses[1].content) > Len(Listed(1))
    /\ Dispatched(1) = Listed(1)
    /\ Listed(1)[1][1] # Listed(1)[2][1]
    /\ Len(DispatchesOf(2)) >= 1

\* C25: the session store changes only when a query made with a session id
\* returns, after generate_response produced the answer; that step appends
\* exactly one exchange, holding the session id, the question the query was
\* made with and the text generate_response returned, and nothing of the
\* tool-call and tool-result messages; every such query that returns appends one.
C25_HistoryHandOff ==
    [][ /\ history' # history =>
              /\ pc = "generated" /\ pc' = "idle" /\ outcome' = "returned"
              /\ session_id # None
              /\ history' = Append(history,
                               [session_id |-> session_id[1],
                                user |-> calls[1].messages[1].content,
                                assistant |-> answer[1]])
        /\ (pc = "generated" /\ pc' = "idle" /\ session_id # None) =>
              Len(history') = Len(history) + 1
        /\ (pc' = "idle" /\ outcome' = "raised") => history' = history
      ]_vars

\* a second query of session s1 ran a tool round and returned: the store holds
\* its exchange after the first one, and the query was given the first as history
C25_Witness ==
    /\ outcome = "returned"
    /\ session_id = Some("s1")
    /\ Len(history) = 2
    /\ history[1].session_id = "s1"
    /\ history[2] = [session_id |-> "s1", user |-> "And lesson 2?", assistant |-> answer[1]]
    /\ args.conversation_history =
          Some("User: What is MCP?\nAssistant: " \o history[1].assistant)
    /\ Len(messages) = 3
    /\ Len(dispatches) = 1
    /\ answer[1] # ""

RECURSIVE FirstRegistered(_)
\* the names registered by the first n registrations, each once, in the order in
\* which each was registered for the first time
FirstRegistered(n) ==
    IF n = 0 THEN <<>>
    ELSE LET prev == FirstRegistered(n - 1)
             r == registrations[n]
         IN IF r.raised \/ (\E i \in 1..Len(prev) : prev[i] = r.tool.name[1])
            THEN prev
            ELSE Append(prev, r.tool.name[1])

RECURSIVE RegisteredInOrder(_)
\* the tools registered after the first n registrations, in the order in which
\* they were registered: a registration under a name in use removes the tool it
\* replaces, and the new tool comes after every tool registered before it
RegisteredInOrder(n) ==
    IF n = 0 THEN <<>>
    ELSE LET prev == RegisteredInOrder(n - 1)
             r == registrations[n]
         IN IF r.raised
            THEN prev
            ELSE Append(SelectSeq(prev, LAMBDA t : t.name # r.tool.name), r.tool)

\* the definition a tool instance returns from get_tool_definition
DefinitionOf(tool) == [name |-> tool.name[1]]

\* C26 as stated: after every sequence of registrations, re-registrations of a
\* name in use included, get_tool_definitions returns the definitions of the
\* registered tools in the order in which these tools were registered.
C26_AsStated ==
    LET inOrder == RegisteredInOrder(Len(registrations))
    IN ToolDefinitions(tools) = [i \in 1..Len(inOrder) |-> DefinitionOf(inOrder[i])]

\* C26, amended: after every sequence of registrations get_tool_definitions
\* returns one definition per registered name, in the order in which the names
\* were registered for the first time; a name registered again keeps its place,
\* and the definition at that place is the one of the tool registered last
\* under the name.
C26_FirstRegistrationOrder ==
    LET n == Len(registrations)
        names == FirstRegistered(n)
    IN /\ Len(ToolDefinitions(tools)) = Len(names)
       /\ \A i \in 1..Len(names) :
             /\ ToolDefinitions(tools)[i] = DefinitionOf(Latest(n, names[i]))
             /\ ToolDefinitions(tools)[i].name = names[i]
             /\ tools[i].tool = Latest(n, names[i])

\* the search tool, the outline tool, then another tool under the search tool's
\* name: the definitions list the search name first, held by the third tool
C26_Witness ==
    /\ Len(registrations) = 3
    /\ \A i \in 1..3 : ~registrations[i].raised
    /\ registrations[1].tool.name = Some(SEARCH)
    /\ registrations[2].tool.name = Some(OUTLINE)
    /\ registrations[3].tool.name = Some(SEARCH)
    /\ ToolDefinitions(tools) = <<[name |-> SEARCH], [name |-> OUTLINE]>>
    /\ tools[1].tool.id = 3

\* C27: the step of a query that calls reset_sources leaves every registered
\* tool's last_sources empty, whatever the executions before it left there, so
\* get_last_sources then returns the empty list; the registry holds the same
\* tools as before, and a second reset_sources changes nothing.
C27_ResetPostcondition ==
    [][ (pc = "generated" /\ pc' = "idle") =>
            /\ \A i \in 1..Len(tools') : last_sources'[tools'[i].name] = <<>>
            /\ GetLastSources(last_sources') = <<>>
            /\ tools' = tools
            /\ DOMAIN last_sources' = DOMAIN last_sources
            /\ ResetSources(last_sources') = last_sources'
            /\ GetLastSources(ResetSources(last_sources')) = <<>>
      ]_vars

\* a query ran the search tool and the outline tool, each left sources, and
\* after the reset of the query both tools hold none
C27_Witness ==
    /\ outcome = "returned"
    /\ Len(dispatches) = 2
    /\ dispatches[1].name # dispatches[2].name
    /\ \A i \in 1..2 : dispatches[i].assigned # None /\ dispatches[i].assigned[1] # <<>>
    /\ ret_sources # <<>>
    /\ \A t \in ToolNameSet : last_sources[t] = <<>>
    /\ Keys(tools) = RegisteredTools

\* the text _handle_tool_execution holds in tool_result after the dispatch d
ResultText(d) == IF d.raised THEN "Tool execution error: " \o d.text ELSE d.text

\* the tool-result message of round c, as the dispatches of the round give it
RoundResults(c) ==
    [j \in 1..Len(DispatchesOf(c)) |->
        [type |-> "tool_result", tool_use_id |-> DispatchesOf(c)[j].id,
         content |-> ResultText(DispatchesOf(c)[j])]]

\* how a dispatch that returned ended: with content, with a domain error the
\* store reported, or with the registry's 'not found' message
ReturnedSuccess(d) == ~d.raised /\ d.assigned # None /\ d.assigned[1] # <<>>
ReturnedDomainError(d) == ~d.raised /\ d.text = ErrorResults.error[1]
ReturnedNotFound(d) == ~d.raised /\ d.text = "Tool '" \o d.name \o "' not found"

\* C28: the tool_result of every dispatch that returned holds exactly the string
\* returned, whether content, a domain error of the store or 'not found'; and
\* whatever the dispatches of a round returned, the round ends the same way: the
\* assistant message and one user message with the round's results are the last
\* two messages of the follow-up call, which is made with the parameters of any
\* follow-up call of that round.
C28_ToolTextPassThrough ==
    /\ \A i \in 1..Len(dispatches) :
          ~dispatches[i].raised =>
              AllResults[i] = [type |-> "tool_result",
                               tool_use_id |-> dispatches[i].id,
                               content |-> dispatches[i].text]
    /\ \A c \in 1..(Len(calls) - 1) :
          DispatchesOf(c) # <<>> =>
              LET m == calls[c + 1].messages
              IN /\ Len(m) >= 3
                 /\ m[Len(m)] = [role |-> "user", content |-> RoundResults(c)]
                 /\ m[Len(m) - 1] = [role |-> "assistant", content |-> responses[c].content]
                 /\ calls[c + 1] = FollowupParams(ApiParams(args), m, c)

\* one round dispatched three calls: one returned content, one a domain error,
\* one 'not found'; the follow-up call was made with the three texts
C28_Witness ==
    /\ Len(calls) >= 2
    /\ Len(DispatchesOf(1)) = 3
    /\ \E i \in 1..3 : ReturnedSuccess(DispatchesOf(1)[i])
    /\ \E i \in 1..3 : ReturnedDomainError(DispatchesOf(1)[i])
    /\ \E i \in 1..3 : ReturnedNotFound(DispatchesOf(1)[i])
    /\ Len(calls[2].messages[3].content) = 3

\* the string s begins with the string prefix
StartsWith(s, prefix) == Len(s) >= Len(prefix) /\ SubSeq(s, 1, Len(prefix)) = prefix

\* the marker of a tool_result that reports an exception of the dispatch
FaultMarker == "Tool execution error:"

\* C29: the content of a tool_result starts with 'Tool execution error:' exactly
\* when the dispatch of its tool call raised an exception; no text a dispatch
\* returned (results, an outline, a domain error of the store, 'not found')
\* starts with the marker.
C29_FaultsDistinguishable ==
    /\ Len(AllResults) = Len(dispatches)
    /\ \A i \in 1..Len(dispatches) :
          /\ StartsWith(AllResults[i].content, FaultMarker) <=> dispatches[i].raised
          /\ ~dispatches[i].raised => ~StartsWith(dispatches[i].text, FaultMarker)

\* in one round a dispatch raised and another returned a domain error or 'not
\* found': only the first result carries the marker
C29_Witness ==
    /\ Len(dispatches) = 2
    /\ Len(AllResults) = 2
    /\ dispatches[1].call = dispatches[2].call
    /\ \E i \in 1..2 : dispatches[i].raised /\ StartsWith(AllResults[i].content, FaultMarker)
    /\ \E i \in 1..2 :
          /\ ReturnedDomainError(dispatches[i]) \/ ReturnedNotFound(dispatches[i])
          /\ ~StartsWith(AllResults[i].content, FaultMarker)

\* the role of the i-th message of a conversation that alternates from the user
RoleAt(i) == IF i % 2 = 1 THEN "user" ELSE "assistant"

\* C30 as stated: in every model call of a query the messages begin with the one
\* user message that holds the query, the messages of a follow-up call extend
\* those of the call before it, the roles alternate user, assistant, user, ...,
\* and the call made after k rounds holds exactly 1 + 2k messages; the first call
\* of every query, whatever queries came before, holds the one user message.
C30_ConversationShape ==
    \A c \in 1..Len(calls) :
        LET m == calls[c].messages
        IN /\ m # <<>>
           /\ m[1] = [role |-> "user", content |-> args.query]
           /\ c > 1 => IsPrefix(calls[c - 1].messages, m)
           /\ \A i \in 1..Len(m) : m[i].role = RoleAt(i)
           /\ Len(m) = 1 + 2 * (c - 1)

\* C31 as stated: whenever the response a query ends on holds a text block, on
\* the zero-round path or after tool rounds, and also when a block without text
\* precedes the first text block, generate_response returns the text of the
\* first text block in block order.
C31_FirstTextBlockWins ==
    (OnFinalResponse /\ TextBlocks(responses[Len(responses)].content) # <<>>)
        => /\ outcome # "raised"
           /\ answer = Some(TextBlocks(responses[Len(responses)].content)[1].text)

\* the names under which tools are registered and hold sources, in the order of
\* the registry
Holders == SelectSeq(Keys(tools), LAMBDA t : last_sources[t] # <<>>)

\* C32: a get_last_sources call returns the last_sources of the first tool, in
\* the order of registration, that holds some, and the empty list when no tool
\* holds any; the call changes no tool's last_sources and not the registry, so
\* a call made again right after it returns the same list.
C32_FirstNonEmptyScan ==
    [][ \A q \in Threads :
          (threads[q].pc = "generated" /\ threads'[q].pc = "collected") =>
              /\ threads'[q].collected =
                     IF Holders = <<>> THEN <<>> ELSE last_sources[Holders[1]]
              /\ last_sources' = last_sources
              /\ tools' = tools
              /\ GetLastSources(last_sources') = threads'[q].collected
      ]_vars

\* both tools hold sources, different ones, and a query has collected those of
\* the tool registered first
C32_Witness ==
    \E q \in Threads :
        /\ threads[q].pc = "collected"
        /\ Keys(tools) = <<SEARCH, OUTLINE>>
        /\ last_sources[SEARCH] # <<>>
        /\ last_sources[OUTLINE] # <<>>
        /\ last_sources[SEARCH] # last_sources[OUTLINE]
        /\ threads[q].collected = last_sources[SEARCH]

\* generate_response was called without a tool manager and the first response
\* has stop_reason tool_use
ToolUseWithoutManager ==
    /\ responses # <<>>
    /\ ~args.tool_manager
    /\ responses[1].stop_reason = "tool_use"

\* C33 as stated: when the first response has stop_reason tool_use and
\* generate_response was called without a tool manager, no tool is dispatched,
\* the query makes exactly one model call, and the text of the response's first
\* block is returned.
C33_NoManagerNoExecution ==
    ToolUseWithoutManager =>
        /\ dispatches = <<>>
        /\ Len(calls) = 1
        /\ Len(responses) = 1
        /\ outcome # "raised"
        /\ responses[1].content # <<>>
        /\ "text" \in DOMAIN responses[1].content[1]
        /\ answer = Some(responses[1].content[1].text)

\* C34: every model call of a query, the first and every follow-up, carries the
\* same system content: the static prompt alone when no history or an empty one
\* was given, otherwise the static prompt, a 'Previous conversation:' section
\* and the history.
C34_SystemContent ==
    \A c \in 1..Len(calls) :
        /\ calls[c].system = calls[1].system
        /\ IF args.conversation_history = None \/ args.conversation_history = Some("")
           THEN calls[c].system = SYSTEM_PROMPT
           ELSE /\ calls[c].system = SYSTEM_PROMPT \o "\n\nPrevious conversation:\n"
                                        \o args.conversation_history[1]
                /\ Contains(calls[c].system, "Previous conversation:")
                /\ StartsWith(calls[c].system, SYSTEM_PROMPT)

\* a query given a history has made its first call and two follow-up calls, all
\* with the history in the system content
C34_Witness ==
    /\ Len(calls) = 3
    /\ args.conversation_history = Some("User: hi\nAssistant: hello")
    /\ \A c \in 1..3 :
          calls[c].system = SYSTEM_PROMPT \o "\n\nPrevious conversation:\nUser: hi\nAssistant: hello"
    /\ Len(dispatches) = 2

\* the tool execution of the dispatch d produced an error: an exception, or an
\* error the store reported
ToolError(d) == d.raised \/ ReturnedDomainError(d)

\* the round loop was entered and has stopped
LoopStopped == pc = "generated" /\ Assistants # <<>>

\* the first two exit conditions: a round is run only for a response with
\* stop_reason tool_use and only below the cap, and when the loop has stopped the
\* counter is at the cap or the last response has another stop_reason
StopsAtCapOrAnswer ==
    /\ \A c \in 1..Len(Assistants) :
          responses[c].stop_reason = "tool_use" /\ c <= MAX_TOOL_ROUNDS
    /\ LoopStopped =>
          /\ Len(responses) = Len(Assistants) + 1
          /\ round_count = Len(Assistants)
          /\ \/ round_count = MAX_TOOL_ROUNDS
             \/ responses[Len(responses)].stop_reason # "tool_use"
    /\ (pc = "exec" /\ Len(responses) > 1) =>
          /\ responses[Len(responses)].stop_reason = "tool_use"
          /\ round_count < MAX_TOOL_ROUNDS

SearchFailed ==
    /\ Called
    /\ TheCall.name = SEARCH
    /\ ~TheCall.result.raised
    /\ \/ Truthy(TheCall.reply.results.error)
       \/ TheCall.reply.results.documents = <<>>

\* C36: a CourseSearchTool.execute call that returns the store's error string or
\* the no-match message leaves last_sources, the search tool's and every other
\* tool's, as it was before the call; the search tool's last_sources differs
\* from what it was only after a call that formatted results.
C36_FailedSearchFrame ==
    /\ SearchFailed =>
          /\ TheCall.result.assigned = None
          /\ last_sources = TheCall.before
          /\ CallsOf("get_lesson_link") = <<>>
    /\ (Called /\ last_sources[SEARCH] # TheCall.before[SEARCH]) =>
          /\ TheCall.name = SEARCH
          /\ ~TheCall.result.raised
          /\ TheCall.reply.results.error = None
          /\ TheCall.reply.results.documents # <<>>
          /\ TheCall.result.assigned = Some(last_sources[SEARCH])

\* a search that found nothing, on a tool that held the source of an earlier
\* search: the source is still there
C36_Witness ==
    /\ SearchFailed
    /\ TheCall.reply.results.error = None
    /\ TheCall.before[SEARCH] = <<Source("MCP - Lesson 1", None)>>
    /\ last_sources[SEARCH] = <<Source("MCP - Lesson 1", None)>>
    /\ StartsWith(TheCall.result.text, "No relevant content found")

\* the label of a block: the course title in brackets, followed inside the
\* brackets, when the metadata has a lesson number, by lessonPart and the number
BlockLabel(meta, lessonPart) ==
    "[" \o meta.course_title[1]
        \o (IF meta.lesson_number # None
            THEN lessonPart \o ToString(meta.lesson_number[1]) ELSE "")
        \o "]"

\* one block per (document, metadata) pair of the search, in the store's order,
\* each the label, a newline and the document, joined by blank lines
ExpectedBlocks(lessonPart) ==
    LET results == TheCall.reply.results
    IN Join([i \in 1..Len(results.documents) |->
                BlockLabel(results.metadata[i], lessonPart) \o "\n" \o results.documents[i]],
            "\n\n")

\* C37 as stated: for SearchResults with documents and no error the output is
\* one block per (document, metadata) pair, in the store's order, none dropped
\* or merged, separated by blank lines; a block is the label, a newline and the
\* document, the label being `[<course title>]` without a lesson number and
\* `[<course title>, Lesson <n>]` with one.
C37_AsStated ==
    Formatted => (~TheCall.result.raised => TheCall.result.text = ExpectedBlocks(", Lesson "))

\* C37, amended: as stated, but the label of a block whose metadata has a
\* lesson number is `[<course title> - Lesson <n>]`.
C37_SearchResultFormat ==
    Formatted =>
        (~TheCall.result.raised =>
            /\ TheCall.result.text = ExpectedBlocks(" - Lesson ")
            /\ Len(TheCall.reply.results.documents) = Len(TheCall.reply.results.metadata))

\* three results, the first and the third of the same lesson, the second
\* without a lesson number: three blocks in the store's order
C37_Witness ==
    /\ Formatted
    /\ ~TheCall.result.raised
    /\ TheCall.reply.results.metadata =
          << [course_title |-> Some("Intro"), lesson_number |-> Some(1)],
             [course_title |-> Some("Intro"), lesson_number |-> None],
             [course_title |-> Some("Intro"), lesson_number |-> Some(1)] >>
    /\ TheCall.result.text =
          "[Intro - Lesson 1]\nchunk 1\n\n[Intro]\nchunk 2\n\n[Intro - Lesson 1]\nchunk 3"
    /\ Len(last_sources[SEARCH]) = 2


\* the course whose outline the call formatted: the first of the returned metadata
\* with the resolved title
OutlinedCourse ==
    LET courses == TheCall.reply.courses
        first == CHOOSE c \in 1..Len(courses) :
                    /\ courses[c].title = TheCall.reply.resolved[1]
                    /\ \A d \in 1..(c - 1) : courses[d].title # TheCall.reply.resolved[1]
    IN courses[first]

\* the lines of an outline: the title, the link when there is one, the number of
\* lessons, the heading of the lesson list, and one indented line per lesson as stored
OutlineLines(course) ==
    << "Course: " \o course.title >>
    \o (IF course.course_link # "" THEN << "Course Link: " \o course.course_link >>
        ELSE << >>)
    \o << "Total Lessons: " \o ToString(Len(course.lessons)), "Lessons:" >>
    \o [i \in 1..Len(course.lessons) |->
           "  " \o ToString(course.lessons[i].lesson_number) \o ". "
                \o course.lessons[i].lesson_title]

\* C38: a successful outline execution returns, one per line and in this order, the
\* course title line, the course-link line exactly when the course has a link, the
\* count of the stored lessons, the heading of the lesson list, and one line
\* "<number>. <title>" per stored lesson in the stored order, none re-sorted or omitted.
C38_OutlineFormat ==
    OutlineFormatted =>
        /\ ~TheCall.result.raised
        /\ TheCall.result.text = Join(OutlineLines(OutlinedCourse), "\n")
        /\ Len(OutlineLines(OutlinedCourse))
              = Len(OutlinedCourse.lessons) + (IF OutlinedCourse.course_link # "" THEN 4 ELSE 3)

\* the outline of a course stored without a link, its lessons stored as 2 then 1
C38_Witness ==
    /\ OutlineFormatted
    /\ OutlinedCourse.course_link = ""
    /\ OutlinedCourse.lessons[1].lesson_number = 2
    /\ TheCall.result.text
          = "Course: Intro\nTotal Lessons: 2\nLessons:\n  2. Tools\n  1. Basics"

====
